---- MODULE Spec2Model ----
(***************************************************************************)
(* State-machine model of the useLiveGemini hook (src/types.ts): the       *)
(* session life cycle (connect, retry with backoff, onopen / onclose /     *)
(* onerror, disconnect, unmount), screen sharing with its two capture      *)
(* timers, and the inbound-message handlers that feed the transcript list  *)
(* and the playback timeline.                                              *)
(*                                                                         *)
(* A ref that holds a handle is modelled by what the handle points at:     *)
(* NULL, HANDLE (a resource that is open / running / pending) or, for the  *)
(* retry timeout only, FIRED (the id of a timeout that has fired; no other *)
(* ref can hold a handle to a resource that is already released).  Which   *)
(* of several equal resources a handle names never matters to the code, so *)
(* the platform side is kept as counts: how many audio contexts are open,  *)
(* how many streams have running tracks, how many timers can still fire,   *)
(* how many sessions are connecting / open / closing, whether or not a ref *)
(* of the hook still points at them.  A resource is referenced by at most  *)
(* one ref, so "count minus one per non-null ref" is what has leaked.      *)
(***************************************************************************)
EXTENDS Naturals, Sequences, FiniteSets

\* ---------------------------------------------------------------- bounds
MaxOps   == 3      \* connect() calls, startScreenShare() calls and inbound
                   \* messages in a run, taken together
MaxClock == 0      \* latest reading of the wall clock and of the audio clock

\* ------------------------------------------------------ program constants
MAX_RETRIES == 3
TRANSCRIPT_MERGE_WINDOW_MS == 2000
TickMs == TRANSCRIPT_MERGE_WINDOW_MS   \* one unit of the wall clock
ANALYZE_THROTTLE_MS == 500
StartMs == ANALYZE_THROTTLE_MS * 2      \* Date.now() at mount: far from 0

bufferSize == 4    \* this.bufferSize of the capture worklet, 4096 there: the
                   \* code only counts up to it, so a short buffer stands for it
MaxChunk == 10     \* longest input of one process() call, in samples
SampleSteps == 100 \* the samples tried are the multiples of 1/SampleSteps
MaxClicks == 2     \* clicks on the video that pass the throttle, where each y is tried

NEG_SCALE == 32768     \* 0x8000
POS_SCALE == 32767     \* 0x7FFF
BASE_DELAY_MS == 1000
MAX_DELAY_MS == 10000
JITTER_MS == 1000      \* Math.random() * 1000 lies in [0, JITTER_MS)

\* REGION_THRESHOLDS, in hundredths of the height of the video
HERO_AREA_Y == 65
BOARD_AREA_Y_MIN == 25
BOARD_AREA_Y_MAX == 65
DECODE_SCALE == 32768  \* 32768.0

NULL   == 0
HANDLE == 1
FIRED  == 2

VARIABLES
    \* React state
    isActive, isStreamingScreen, error, isPermissionError, transcripts,
    \* refs
    inputAudioContextRef, outputAudioContextRef, gainNodeRef, workletNodeRef,
    mediaStreamRef, audioStreamRef, sessionRef,
    nextStartTimeRef, audioSourcesRef,
    videoIntervalRef, autoAnalysisIntervalRef,
    retryCountRef, retryTimeoutRef,
    \* the platform
    apiKey,            \* process.env.API_KEY is set
    mounted,           \* the component owning the hook is mounted
    calls,             \* connect() calls made so far
    micWait,           \* connect() calls suspended in await getUserMedia
    sess,              \* sessions: how many are connecting, open, closing
    wlLoading,         \* onopen continuations suspended in await addModule
    openContexts,      \* audio contexts not closed
    liveMic,           \* microphone streams with running tracks
    shareCalls,        \* startScreenShare() calls made so far
    shareWait,         \* startScreenShare() calls suspended in getDisplayMedia
    liveScreen,        \* display streams with running tracks
    liveRetryTimers,   \* retry timeouts that can still fire
    liveIntervals,     \* frame intervals that can still fire
    liveAutoIntervals, \* auto-refresh intervals that can still fire
    msgs,              \* inbound messages handled so far
    now,               \* last reading of the wall clock, in units of TickMs
    \* history
    last,              \* the step taken last, when a property needs to know
    failsSinceOpen,    \* retryable connect failures since the last open
    timersSinceOpen,   \* retry timers scheduled since the last open
    backoffCounts,     \* the arguments of the getBackoffDelay() calls since the last open
    threw,             \* the calls that threw into a catch block that only logs (history)
    \* tool calls and deep analysis
    pokerState,        \* <<>> for null, or <<r>> for the record r
    isDeepAnalyzing,
    deepCaptures,      \* runDeepAnalysis() calls suspended in await captureFrame
    deepRequests,      \* runDeepAnalysis() calls suspended in await generateContent
    received,          \* the function calls received so far (history)
    toolResponses,     \* the tool responses sent so far
    deepWritten,       \* deepAnalysis as the deep-analysis flow wrote it last (history)
    \* region analysis
    clockMs,           \* the wall clock, in milliseconds
    lastAnalyzeTimeRef,
    regionCaptures,    \* analyzeRegion() calls suspended in await captureFrame
    sent,              \* the realtime inputs sent so far
    accepted,          \* analyzeRegion() calls that passed the throttle (history)
    pendingY,          \* the y of each analyzeRegion() call suspended in await captureFrame
    prompts,           \* <<y, text>> of each instruction analyzeRegion() passed to sendSafeInput
    clickEffect,       \* VideoPreview's clickEffect: <<>> for null, or <<[y, type]>>
    \* playback as heard
    playClock,         \* currentTime of the output context at the last chunk
    scheduled,         \* the chunks started so far: <<start, end, c>>, on the output
                       \* context of the c-th connect() call (history)
    \* the analysis side's run
    steps,             \* steps taken by the operations below the connection
    alast,             \* the step of those taken last
    \* the capture worklet
    buffer,            \* this.buffer, indexed from 0
    bufferIndex,       \* this.bufferIndex
    posted,            \* the data of the messages posted so far
    fed,               \* the samples process() was given so far (history)
    returned,          \* <<>>, or <<v>> for the value the last process() returned
    \* captures of the scan and of the frame timer
    scanCaptures,      \* triggerManualScan() calls suspended in await captureFrame
    tickCaptures,      \* frame-interval callbacks suspended in await captureFrame
    \* inbound messages across a suspended output context
    ctxSuspended,      \* the output context's state is 'suspended'
    parked,            \* the onmessage handlers suspended in await ctx.resume()
    heard,             \* the chunks started so far, with their message (history)
    \* one sample through the PCM codec
    pcmData,           \* data[i], in units of 1/SampleSteps
    int16,             \* <<>>, or <<v>> for the int16[i] it was encoded to
    decoded            \* <<>>, or <<v>> for the channelData[i] that was decoded,
                       \* in units of 1/(SampleSteps * DECODE_SCALE)

stateVars == <<isActive, isStreamingScreen, error, isPermissionError, transcripts>>
audioRefs == <<inputAudioContextRef, outputAudioContextRef, gainNodeRef, workletNodeRef>>
playRefs  == <<nextStartTimeRef, audioSourcesRef>>
shareRefs == <<mediaStreamRef, videoIntervalRef, autoAnalysisIntervalRef>>
retryRefs == <<retryCountRef, retryTimeoutRef>>
shareEnv  == <<shareCalls, shareWait, liveScreen, liveIntervals, liveAutoIntervals>>
connEnv   == <<calls, micWait, sess, wlLoading, openContexts, liveMic, liveRetryTimers>>
history   == <<failsSinceOpen, timersSinceOpen, backoffCounts, threw>>
toolVars  == <<pokerState, isDeepAnalyzing, deepCaptures, deepRequests, received,
               toolResponses, deepWritten>>
regionVars == <<lastAnalyzeTimeRef, regionCaptures, sent, accepted, pendingY, prompts,
                clickEffect>>
playVars  == <<playClock, scheduled>>
analysis  == <<toolVars, regionVars, playVars, clockMs, steps, alast>>
workletVars == <<buffer, bufferIndex, posted, fed, returned>>
pcmVars   == <<pcmData, int16, decoded>>
captureVars == <<scanCaptures, tickCaptures>>
orderVars == <<ctxSuspended, parked, heard>>
signal    == <<workletVars, pcmVars, captureVars, orderVars>>

vars == <<stateVars, audioRefs, playRefs, shareRefs, retryRefs, audioStreamRef,
          sessionRef, apiKey, signal, analysis, mounted, shareEnv, connEnv, msgs, now, last, history>>

\* ------------------------------------------------------------- helpers
Held(ref) == IF ref = HANDLE THEN 1 ELSE 0     \* resources a ref points at
Max(x, y) == IF x >= y THEN x ELSE y

\* what the run has used of its bound
Ops == calls + shareCalls + msgs

\* Error objects: the class decides instanceof, the message decides the
\* substring test of handleError.  "perm" stands for a message that contains
\* 'permission', '403' or '401', "other" for one that does not, "nokey" for
\* 'API Key non configurata'.  A socket error is an Event: String(e) holds no
\* marker.
NullError    == [context |-> "none", message |-> "none"]
ApiKeyError  == [cls |-> "GeminiConnectionError", message |-> "nokey", retryable |-> FALSE]
MediaErrors  == {[cls |-> "DOMException", message |-> m, retryable |-> TRUE] : m \in {"perm", "other"}}
SocketErrors == {[cls |-> "Event", message |-> "other", retryable |-> TRUE]}

HasMarker(message) == message = "perm"

\* a faulty variant of handleError that stores no message
HandleErrorMsgDropped(err, context) == NullError

\* handleError: the message is always stored, the flag is only ever raised.
HandleErrorMsg(err, context) == [context |-> context, message |-> err.message]
HandleErrorFlag(err, flag)   == flag \/ HasMarker(err.message)

\* faulty variant of ShouldNotRetry: the non-retryable test is missing
ShouldNotRetryNever(err) == FALSE

\* the test of the catch block of connect() that ends it without a retry
ShouldNotRetry(err) == err.cls = "GeminiConnectionError" /\ ~err.retryable

\* faulty variant of RetryBudgetLeft: the comparison is off by one
RetryBudgetLeftOffByOne(count) == count <= MAX_RETRIES

\* the test of the catch block of connect() that schedules a retry
RetryBudgetLeft(count) == count < MAX_RETRIES

\* faulty variant of getBackoffDelay: the delay does not grow with the count
getBackoffDelayFlat(retryCount, jitter) == BASE_DELAY_MS + jitter

\* getBackoffDelay(retryCount), in whole milliseconds; `jitter` is the value
\* that Math.random() * 1000 took
getBackoffDelay(retryCount, jitter) ==
    (IF BASE_DELAY_MS * 2 ^ retryCount < MAX_DELAY_MS
       THEN BASE_DELAY_MS * 2 ^ retryCount
       ELSE MAX_DELAY_MS) + jitter

\* values of the jitter tried: both ends of [0, JITTER_MS) and its middle
Jitters == {0, 1, JITTER_MS \div 2, JITTER_MS - 2, JITTER_MS - 1}

\* catch block of connect(); `flag` is isPermissionError and `timers` the
\* count of pending retry timeouts when the block is entered.  A timeout the
\* ref pointed at stays pending when the ref is overwritten.
CatchConnect(err, flag, ref, timers) ==
    /\ error' = HandleErrorMsg(err, "Connection")
    /\ isPermissionError' = HandleErrorFlag(err, flag)
    /\ IF ~ShouldNotRetry(err) /\ RetryBudgetLeft(retryCountRef)
         THEN /\ retryCountRef' = retryCountRef + 1
              /\ retryTimeoutRef' = HANDLE
              /\ liveRetryTimers' = timers + 1
              /\ timersSinceOpen' = timersSinceOpen + 1
              /\ backoffCounts' = Append(backoffCounts, retryCountRef')
         ELSE /\ retryCountRef' = retryCountRef
              /\ retryTimeoutRef' = ref
              /\ liveRetryTimers' = timers
              /\ timersSinceOpen' = timersSinceOpen
              /\ backoffCounts' = backoffCounts
    /\ failsSinceOpen' = IF ShouldNotRetry(err) THEN failsSinceOpen ELSE failsSinceOpen + 1
    /\ threw' = threw

\* ------------------------------------------------------------- Init
InitHook ==
    /\ isActive = FALSE /\ isStreamingScreen = FALSE
    /\ error = NullError /\ isPermissionError = FALSE
    /\ transcripts = <<>>
    /\ inputAudioContextRef = NULL /\ outputAudioContextRef = NULL
    /\ gainNodeRef = NULL /\ workletNodeRef = NULL
    /\ mediaStreamRef = NULL /\ audioStreamRef = NULL /\ sessionRef = NULL
    /\ nextStartTimeRef = 0 /\ audioSourcesRef = {}
    /\ videoIntervalRef = NULL /\ autoAnalysisIntervalRef = NULL
    /\ retryCountRef = 0 /\ retryTimeoutRef = NULL
    /\ apiKey \in BOOLEAN
    /\ mounted = TRUE
    /\ calls = 0 /\ micWait = 0
    /\ sess = [connecting |-> 0, open |-> 0, closing |-> 0]
    /\ wlLoading = 0
    /\ openContexts = 0 /\ liveMic = 0
    /\ shareCalls = 0 /\ shareWait = 0 /\ liveScreen = 0
    /\ liveRetryTimers = 0 /\ liveIntervals = 0 /\ liveAutoIntervals = 0
    /\ msgs = 0 /\ now = 0
    /\ last = "init"
    /\ failsSinceOpen = 0 /\ timersSinceOpen = 0 /\ backoffCounts = <<>>
    /\ threw = <<>>
    /\ pokerState = <<>> /\ isDeepAnalyzing = FALSE
    /\ deepCaptures = 0 /\ deepRequests = 0
    /\ received = <<>> /\ toolResponses = <<>> /\ deepWritten = <<>>
    /\ clockMs = StartMs /\ lastAnalyzeTimeRef = 0
    /\ regionCaptures = 0 /\ sent = <<>> /\ accepted = 0
    /\ pendingY = <<>> /\ prompts = <<>> /\ clickEffect = <<>>
    /\ playClock = 0 /\ scheduled = <<>>
    /\ steps = 0 /\ alast = "none"
    /\ buffer = [i \in 0..(bufferSize - 1) |-> 0] /\ bufferIndex = 0
    /\ posted = <<>> /\ fed = <<>> /\ returned = <<>>
    /\ scanCaptures = 0 /\ tickCaptures = 0
    /\ ctxSuspended = FALSE /\ parked = <<>> /\ heard = <<>>

Init == InitHook /\ pcmData = 0 /\ int16 = <<>> /\ decoded = <<>>

\* ------------------------------------------------------------- connect
\* connect(), from its entry to its first suspension (await getUserMedia) or
\* to its return through the catch block when getApiKey() throws.  The new
\* audio contexts are stored over whatever the refs held.
ConnectEntry(ref, timers, budget) ==
    /\ Ops < budget
    /\ calls' = calls + 1
    /\ IF ~apiKey
         THEN /\ CatchConnect(ApiKeyError, FALSE, ref, timers)   \* after resetError()
              /\ last' = "noKey"
              /\ UNCHANGED <<audioRefs, openContexts, micWait, playClock>>
         ELSE /\ error' = NullError /\ isPermissionError' = FALSE
              /\ inputAudioContextRef' = HANDLE
              /\ outputAudioContextRef' = HANDLE
              /\ gainNodeRef' = HANDLE
              /\ openContexts' = openContexts + 2
              /\ playClock' = 0            \* currentTime of the new output context
              /\ micWait' = micWait + 1
              /\ last' = "step"
              /\ retryTimeoutRef' = ref
              /\ liveRetryTimers' = timers
              /\ UNCHANGED <<workletNodeRef, retryCountRef, history>>
    /\ UNCHANGED <<isActive, isStreamingScreen, transcripts, playRefs, shareRefs,
                   audioStreamRef, sessionRef, apiKey, signal, toolVars, regionVars,
                   scheduled, clockMs, steps, alast, mounted, shareEnv, sess,
                   wlLoading, liveMic, msgs, now>>

\* the user calls connect()
ConnectWithin(budget) == mounted /\ ConnectEntry(retryTimeoutRef, liveRetryTimers, budget)

Connect == ConnectWithin(MaxOps)

\* the pending retry timeout that retryTimeoutRef points at fires and calls
\* connect(); the ref keeps the id of the timeout that fired
RetryTimerFiresWithin(budget) ==
    /\ retryTimeoutRef = HANDLE
    /\ ConnectEntry(FIRED, liveRetryTimers - 1, budget)

RetryTimerFires == RetryTimerFiresWithin(MaxOps)

\* a pending retry timeout that no ref points at any more fires and calls connect()
LostRetryTimerFiresWithin(budget) ==
    /\ liveRetryTimers - Held(retryTimeoutRef) > 0
    /\ ConnectEntry(retryTimeoutRef, liveRetryTimers - 1, budget)

LostRetryTimerFires == LostRetryTimerFiresWithin(MaxOps)

\* getUserMedia resolves: the stream is stored and ai.live.connect() is called;
\* its promise is not awaited, so connect() returns here
MicGranted ==
    /\ micWait > 0
    /\ micWait' = micWait - 1
    /\ audioStreamRef' = HANDLE
    /\ liveMic' = liveMic + 1
    /\ sess' = [sess EXCEPT !.connecting = @ + 1]
    /\ last' = "step"
    /\ UNCHANGED <<stateVars, audioRefs, playRefs, shareRefs, retryRefs, sessionRef,
                   apiKey, signal, analysis, mounted, shareEnv, calls, wlLoading, openContexts,
                   liveRetryTimers, msgs, now, history>>

\* getUserMedia rejects (permission denied, no device): the catch block runs
MicDenied ==
    /\ micWait > 0
    /\ micWait' = micWait - 1
    /\ \E err \in MediaErrors :
          CatchConnect(err, isPermissionError, retryTimeoutRef, liveRetryTimers)
    /\ last' = "micDenied"
    /\ UNCHANGED <<isActive, isStreamingScreen, transcripts, audioRefs, playRefs,
                   shareRefs, audioStreamRef, sessionRef, apiKey, signal, analysis, mounted, shareEnv,
                   calls, sess, wlLoading, openContexts, liveMic, msgs, now>>

\* faulty variant of OpenRetryCount: onopen leaves the retry count alone
OpenRetryCountKept(count) == count

\* the retry count that onopen stores
OpenRetryCount(count) == 0

\* onopen of a connecting session: the resolved session is stored, the retry
\* count is reset, and the worklet set-up starts.  inputAudioContextRef.current!
\* is read before the await of addModule; when it is null both the try block
\* and the ScriptProcessor fallback throw and nothing is attached.
OnOpen ==
    /\ sess.connecting > 0
    /\ sess' = [sess EXCEPT !.connecting = @ - 1, !.open = @ + 1]
    /\ sessionRef' = HANDLE
    /\ isActive' = TRUE
    /\ retryCountRef' = OpenRetryCount(retryCountRef)
    /\ wlLoading' = IF inputAudioContextRef = NULL THEN wlLoading ELSE wlLoading + 1
    /\ failsSinceOpen' = 0 /\ timersSinceOpen' = 0 /\ backoffCounts' = <<>>
    /\ threw' = threw
    /\ last' = "step"
    /\ UNCHANGED <<isStreamingScreen, error, isPermissionError, transcripts, audioRefs,
                   playRefs, shareRefs, retryTimeoutRef, audioStreamRef, apiKey, signal, analysis,
                   mounted, shareEnv, calls, micWait, openContexts, liveMic,
                   liveRetryTimers, msgs, now>>

\* addModule resolves: the AudioWorkletNode is created and stored
WorkletLoaded ==
    /\ wlLoading > 0
    /\ wlLoading' = wlLoading - 1
    /\ workletNodeRef' = HANDLE
    /\ last' = "step"
    /\ UNCHANGED <<stateVars, inputAudioContextRef, outputAudioContextRef, gainNodeRef,
                   playRefs, shareRefs, retryRefs, audioStreamRef, sessionRef, apiKey, signal, analysis,
                   mounted, shareEnv, calls, micWait, sess, openContexts, liveMic,
                   liveRetryTimers, msgs, now, history>>

\* addModule rejects: the ScriptProcessor fallback is wired (or throws when the
\* input context ref is null by now); no ref is written on either path
WorkletFailed ==
    /\ wlLoading > 0
    /\ wlLoading' = wlLoading - 1
    /\ last' = "step"
    /\ UNCHANGED <<stateVars, audioRefs, playRefs, shareRefs, retryRefs, audioStreamRef,
                   sessionRef, apiKey, signal, analysis, mounted, shareEnv, calls, micWait, sess,
                   openContexts, liveMic, liveRetryTimers, msgs, now, history>>

\* the onclose handler
OnCloseHandler ==
    /\ sessionRef' = NULL
    /\ isActive' = FALSE
    /\ last' = "step"
    /\ UNCHANGED <<isStreamingScreen, error, isPermissionError, transcripts, audioRefs,
                   playRefs, shareRefs, retryRefs, audioStreamRef, apiKey, signal, analysis, mounted,
                   shareEnv, calls, micWait, wlLoading, openContexts, liveMic,
                   liveRetryTimers, msgs, now, history>>

\* the server closes an open session: onclose fires
ServerClose ==
    /\ sess.open > 0
    /\ sess' = [sess EXCEPT !.open = @ - 1]
    /\ OnCloseHandler

\* the close event of a session that was closed by close() or died by an error
OnClose ==
    /\ sess.closing > 0
    /\ sess' = [sess EXCEPT !.closing = @ - 1]
    /\ OnCloseHandler

\* the onerror handler; the socket is dead and its close event is still to come
OnErrorHandler ==
    /\ \E err \in SocketErrors :
          /\ error' = HandleErrorMsg(err, "WebSocket")
          /\ isPermissionError' = HandleErrorFlag(err, isPermissionError)
    /\ sessionRef' = NULL
    /\ isActive' = FALSE
    /\ last' = "onerror"
    /\ UNCHANGED <<isStreamingScreen, transcripts, audioRefs, playRefs, shareRefs,
                   retryRefs, audioStreamRef, apiKey, signal, analysis, mounted, shareEnv, calls,
                   micWait, wlLoading, openContexts, liveMic, liveRetryTimers, msgs,
                   now, history>>

\* the handshake of a connecting session fails: onerror fires
HandshakeError ==
    /\ sess.connecting > 0
    /\ sess' = [sess EXCEPT !.connecting = @ - 1, !.closing = @ + 1]
    /\ OnErrorHandler

\* the transport of an open session fails: onerror fires
TransportError ==
    /\ sess.open > 0
    /\ sess' = [sess EXCEPT !.open = @ - 1, !.closing = @ + 1]
    /\ OnErrorHandler

\* ------------------------------------------------------- screen sharing
\* a stopAutoAnalysis() that leaves its interval running
StopAutoAnalysisKept(autos) == autos

\* stopAutoAnalysis(): the auto-refresh intervals left pending
StopAutoAnalysis(autos) == autos - Held(autoAnalysisIntervalRef)

\* stopScreenShare(), `screens` being the display streams running at its entry
\* and `ref` what mediaStreamRef points at
StopScreenShareBody(ref, screens) ==
    /\ liveAutoIntervals' = StopAutoAnalysis(liveAutoIntervals)
    /\ autoAnalysisIntervalRef' = NULL
    /\ liveScreen' = screens - Held(ref)
    /\ mediaStreamRef' = NULL
    /\ liveIntervals' = liveIntervals - Held(videoIntervalRef)
    /\ videoIntervalRef' = NULL
    /\ isStreamingScreen' = FALSE
    /\ UNCHANGED <<isActive, error, isPermissionError, transcripts, audioRefs, playRefs,
                   retryRefs, audioStreamRef, sessionRef, apiKey, signal, analysis, mounted, shareCalls,
                   shareWait, connEnv, msgs, now, history>>

\* the tags `last` carries after a run of the stopScreenShare() teardown in
\* the specification of screen sharing
ShareStopped == {"stopShare", "stopShareAgain", "trackEnded", "lostTrackEnded"}

\* the user calls stopScreenShare(); `last` becomes tag, or again when the
\* call follows a run of the teardown
StopScreenShareTagged(tag, again) ==
    /\ mounted
    /\ StopScreenShareBody(mediaStreamRef, liveScreen)
    /\ last' = IF last \in ShareStopped THEN again ELSE tag

StopScreenShare == StopScreenShareTagged("step", "step")

\* the user stops sharing in the browser's own UI: the track of the display
\* stream mediaStreamRef points at ends and its onended handler calls
\* stopScreenShare(), where stop() on the ended track does nothing
TrackEndedTagged(tag) ==
    /\ mediaStreamRef = HANDLE
    /\ StopScreenShareBody(NULL, liveScreen - 1)
    /\ last' = tag

TrackEnded == TrackEndedTagged("step")

\* the same for a display stream that no ref points at any more: its handler
\* stops the stream mediaStreamRef points at now
LostTrackEndedTagged(tag) ==
    /\ liveScreen - Held(mediaStreamRef) > 0
    /\ StopScreenShareBody(mediaStreamRef, liveScreen - 1)
    /\ last' = tag

LostTrackEnded == LostTrackEndedTagged("step")

\* startScreenShare() up to its await of getDisplayMedia
StartScreenShareWithin(budget) ==
    /\ mounted
    /\ Ops < budget
    /\ shareCalls' = shareCalls + 1
    /\ shareWait' = shareWait + 1
    /\ error' = NullError /\ isPermissionError' = FALSE
    /\ last' = "step"
    /\ UNCHANGED <<isActive, isStreamingScreen, transcripts, audioRefs, playRefs,
                   shareRefs, retryRefs, audioStreamRef, sessionRef, apiKey, signal, analysis, mounted,
                   liveScreen, liveIntervals, liveAutoIntervals, connEnv,
                   msgs, now, history>>

StartScreenShare == StartScreenShareWithin(MaxOps)

\* getDisplayMedia resolves: the stream and the frame interval are stored over
\* whatever the refs held, startAutoAnalysis() replaces the auto-refresh interval
ShareGranted ==
    /\ shareWait > 0
    /\ shareWait' = shareWait - 1
    /\ mediaStreamRef' = HANDLE
    /\ liveScreen' = liveScreen + 1
    /\ isStreamingScreen' = TRUE
    /\ videoIntervalRef' = HANDLE
    /\ liveIntervals' = liveIntervals + 1
    /\ autoAnalysisIntervalRef' = HANDLE
    /\ liveAutoIntervals' = StopAutoAnalysis(liveAutoIntervals) + 1
    /\ last' = "step"
    /\ UNCHANGED <<isActive, error, isPermissionError, transcripts, audioRefs, playRefs,
                   retryRefs, audioStreamRef, sessionRef, apiKey, signal, analysis, mounted, shareCalls,
                   connEnv, msgs, now, history>>

\* getDisplayMedia rejects: handleError(err, 'Screen Share') and nothing else
ShareDenied ==
    /\ shareWait > 0
    /\ shareWait' = shareWait - 1
    /\ \E err \in MediaErrors :
          /\ error' = HandleErrorMsg(err, "Screen Share")
          /\ isPermissionError' = HandleErrorFlag(err, isPermissionError)
    /\ last' = "shareDenied"
    /\ UNCHANGED <<isActive, isStreamingScreen, transcripts, audioRefs, playRefs,
                   shareRefs, retryRefs, audioStreamRef, sessionRef, apiKey, signal, analysis, mounted,
                   shareCalls, liveScreen, liveIntervals, liveAutoIntervals, connEnv,
                   msgs, now, history>>

\* ----------------------------------------------------- inbound messages
\* faulty variant of WithinMergeWindow: the window includes its end
WithinMergeWindowInclusive(ms, stamp) == ms - stamp <= TRANSCRIPT_MERGE_WINDOW_MS

\* the test on the two times in handleTranscription
WithinMergeWindow(ms, stamp) == ms - stamp < TRANSCRIPT_MERGE_WINDOW_MS

\* a faulty variant of handleTranscription: a merge moves the entry's
\* timestamp to the time of the merged fragment
HandleTranscriptionSliding(prev, text, source, ms) ==
    IF /\ Len(prev) > 0
       /\ prev[Len(prev)].source = source
       /\ WithinMergeWindow(ms, prev[Len(prev)].timestamp)
      THEN [prev EXCEPT ![Len(prev)].text = @ \o text, ![Len(prev)].timestamp = ms]
      ELSE Append(prev, [id |-> ms, source |-> source, text |-> text,
                         timestamp |-> ms])

\* handleTranscription at wall-clock reading ms (in milliseconds)
HandleTranscription(prev, text, source, ms) ==
    IF /\ Len(prev) > 0
       /\ prev[Len(prev)].source = source
       /\ WithinMergeWindow(ms, prev[Len(prev)].timestamp)
      THEN [prev EXCEPT ![Len(prev)].text = @ \o text]
      ELSE Append(prev, [id |-> ms, source |-> source, text |-> text,
                         timestamp |-> ms])

\* the transcript part of onmessage: output transcription first, then input
Transcribe(prev, outT, inT, ms) ==
    LET afterOut == IF outT THEN HandleTranscription(prev, <<"o">>, "ai", ms) ELSE prev
    IN  IF inT THEN HandleTranscription(afterOut, <<"i">>, "user", ms) ELSE afterOut

\* faulty variant of PlayStart: the chunk starts at once
PlayStartNow(next, clock) == clock

\* the start time of a chunk enqueued at reading clock of the output context
PlayStart(next, clock) == Max(next, clock)

\* onmessage of an open session carrying an audio chunk of duration d (or
\* none), scheduled at audio-clock reading c, and transcription fragments,
\* merged at wall-clock reading t
OnMessage(audio, c, d, outT, inT, t) ==
    /\ sess.open > 0 /\ Ops < MaxOps
    /\ audio \/ outT \/ inT
    /\ t >= now
    /\ msgs' = msgs + 1
    /\ now' = t
    /\ IF audio /\ outputAudioContextRef # NULL /\ gainNodeRef # NULL
         THEN /\ nextStartTimeRef' = PlayStart(nextStartTimeRef, c) + d
              /\ audioSourcesRef' = audioSourcesRef \cup {PlayStart(nextStartTimeRef, c)}
         ELSE UNCHANGED playRefs
    /\ transcripts' = Transcribe(transcripts, outT, inT, t * TickMs)
    /\ last' = "step"
    /\ UNCHANGED <<isActive, isStreamingScreen, error, isPermissionError, audioRefs,
                   shareRefs, retryRefs, audioStreamRef, sessionRef, apiKey, signal, analysis, mounted,
                   shareEnv, connEnv, history>>

\* a scheduled chunk plays to its end: its onended handler untracks it
SourceEnded(s) ==
    /\ s \in audioSourcesRef
    /\ audioSourcesRef' = audioSourcesRef \ {s}
    /\ last' = "step"
    /\ UNCHANGED <<stateVars, audioRefs, nextStartTimeRef, shareRefs, retryRefs,
                   audioStreamRef, sessionRef, apiKey, signal, analysis, mounted, shareEnv, connEnv,
                   msgs, now, history>>

\* ------------------------------------------------------------ disconnect
\* faulty variant of CloseSession: close() is called without the test of the ref
CloseSessionUnguarded(ref, s) == [s EXCEPT !.closing = @ + 1]

\* session.close() on the session sessionRef points at: the socket starts
\* closing, its close event is still to come
CloseSession(ref, s) ==
    IF ref # NULL THEN [s EXCEPT !.open = @ - 1, !.closing = @ + 1] ELSE s

\* faulty variant of CancelRetry: clearTimeout is not called
CancelRetryForgotten(ref, timers) == timers

\* the retry timeouts left pending by the first step of disconnect()
CancelRetry(ref, timers) == timers - Held(ref)

\* disconnect() but for the effect of session.close()
DisconnectTeardown ==
    /\ liveRetryTimers' = CancelRetry(retryTimeoutRef, liveRetryTimers)
    /\ retryTimeoutRef' = NULL
    /\ liveAutoIntervals' = StopAutoAnalysis(liveAutoIntervals)
    /\ autoAnalysisIntervalRef' = NULL
    /\ sessionRef' = NULL
    /\ audioSourcesRef' = {}
    /\ liveMic' = liveMic - Held(audioStreamRef)
    /\ audioStreamRef' = NULL
    /\ liveScreen' = liveScreen - Held(mediaStreamRef)
    /\ mediaStreamRef' = NULL
    /\ workletNodeRef' = NULL
    /\ openContexts' = openContexts - Held(inputAudioContextRef) - Held(outputAudioContextRef)
    /\ inputAudioContextRef' = NULL
    /\ outputAudioContextRef' = NULL
    /\ gainNodeRef' = NULL
    /\ liveIntervals' = liveIntervals - Held(videoIntervalRef)
    /\ videoIntervalRef' = NULL
    /\ isActive' = FALSE
    /\ isStreamingScreen' = FALSE
    /\ transcripts' = <<>>
    /\ nextStartTimeRef' = 0
    /\ UNCHANGED <<error, isPermissionError, retryCountRef, apiKey, signal, analysis, calls, micWait,
                   wlLoading, shareCalls, shareWait, msgs, now, failsSinceOpen,
                   timersSinceOpen, backoffCounts>>

\* disconnect()
DisconnectBody ==
    /\ DisconnectTeardown
    /\ sess' = CloseSession(sessionRef, sess)
    /\ threw' = threw

\* the user calls disconnect()
Disconnect ==
    /\ mounted
    /\ DisconnectBody
    /\ mounted' = mounted
    /\ last' = IF last \in {"disconnect", "again"} THEN "again" ELSE "disconnect"

\* the owning component unmounts: the cleanup effect calls disconnect()
Unmount ==
    /\ mounted
    /\ DisconnectBody
    /\ mounted' = FALSE
    /\ last' = "unmount"

\* ------------------------------------------------------------------ Next
Next ==
    \/ Connect
    \/ RetryTimerFires
    \/ LostRetryTimerFires
    \/ MicGranted
    \/ MicDenied
    \/ OnOpen
    \/ WorkletLoaded
    \/ WorkletFailed
    \/ ServerClose
    \/ OnClose
    \/ HandshakeError
    \/ TransportError
    \/ StartScreenShare
    \/ ShareGranted
    \/ ShareDenied
    \/ StopScreenShare
    \/ TrackEnded
    \/ LostTrackEnded
    \/ \E audio, outT, inT \in BOOLEAN, c, t \in 0..MaxClock, d \in 1..1 :
          OnMessage(audio, c, d, outT, inT, t)
    \/ \E s \in 0..(MaxClock + MaxOps) : SourceEnded(s)
    \/ Disconnect
    \/ Unmount

Spec == Init /\ [][Next]_vars

\* The connection life cycle alone (no screen sharing, no inbound message),
\* with one more call of connect() than Spec has steps to spend: long enough
\* for the retry budget of MAX_RETRIES to run out.
MaxRetryOps == MaxOps + 1

ConnectRetry             == ConnectWithin(MaxRetryOps)
RetryTimerFiresRetry     == RetryTimerFiresWithin(MaxRetryOps)
LostRetryTimerFiresRetry == LostRetryTimerFiresWithin(MaxRetryOps)

NextRetry ==
    \/ ConnectRetry
    \/ RetryTimerFiresRetry
    \/ LostRetryTimerFiresRetry
    \/ MicGranted
    \/ MicDenied
    \/ OnOpen
    \/ WorkletLoaded
    \/ WorkletFailed
    \/ ServerClose
    \/ OnClose
    \/ HandshakeError
    \/ TransportError
    \/ Disconnect
    \/ Unmount

SpecRetry == Init /\ [][NextRetry]_vars

\* ------------------------------------------------- sanity of the model
\* a ref never points at a resource the platform does not have
RefsPointAtResources ==
    /\ Held(sessionRef) <= sess.open
    /\ Held(inputAudioContextRef) + Held(outputAudioContextRef) <= openContexts
    /\ Held(audioStreamRef) <= liveMic
    /\ Held(mediaStreamRef) <= liveScreen
    /\ Held(videoIntervalRef) <= liveIntervals
    /\ Held(autoAnalysisIntervalRef) <= liveAutoIntervals
    /\ Held(retryTimeoutRef) <= liveRetryTimers

\* ================================================ below the connection
\* The operations that use the session rather than manage it: tool calls and
\* the deep analysis, region analysis, the transcript list and playback.
\* Each gets a specification of its own, in which the connection is set up
\* by the actions above and the run of the operations is bounded by MaxSteps.
MaxSteps == 4      \* operations below the connection started in a run

\* frame of the connection side, for the steps below
hookVars == <<stateVars, audioRefs, playRefs, shareRefs, retryRefs, audioStreamRef,
              sessionRef, apiKey, mounted, shareEnv, connEnv, msgs, now, last, history>>
connection == <<hookVars, signal>>
connectionButError == <<isActive, isStreamingScreen, transcripts, audioRefs, playRefs,
                        shareRefs, retryRefs, audioStreamRef, sessionRef, apiKey, signal,
                        mounted, shareEnv, connEnv, msgs, now, last, history>>

\* ------------------------------------------------- Game/Analysis State
\* A value that may be undefined is a sequence: <<>> when undefined or null,
\* <<v>> when it is v; the empty array is << <<>> >>.
ArgFields == {"winProbability", "equity", "potOdds", "suggestedAction", "reasoning",
              "handStrength", "holeCards", "communityCards",
              "opponentEstimatedCards", "opponentRange"}
StateFields == ArgFields \cup {"deepAnalysis"}

\* a ?? b
Coalesce(a, b) == IF a # <<>> THEN a ELSE b

\* prev?.f
PrevField(prev, f) == IF prev = <<>> THEN <<>> ELSE prev[1][f]

\* the last operand of the ?? chain of a field, where it has one
Default(f) ==
    CASE f = "winProbability" -> <<0>>
      [] f = "suggestedAction" -> <<"WAITING">>
      [] f \in {"reasoning", "handStrength"} -> <<"">>
      [] f \in {"holeCards", "communityCards"} -> << <<>> >>
      [] OTHER -> <<>>

\* faulty variant of MergeToolArgs: deepAnalysis is not carried over
MergeToolArgsDropDeep(prev, args) ==
    << [f \in StateFields |->
          IF f = "deepAnalysis" THEN <<>>
          ELSE Coalesce(args[f], Coalesce(PrevField(prev, f), Default(f)))] >>

\* the updater passed to setPokerState by handleToolCall
MergeToolArgs(prev, args) ==
    << [f \in StateFields |->
          IF f = "deepAnalysis" THEN PrevField(prev, f)
          ELSE Coalesce(args[f], Coalesce(PrevField(prev, f), Default(f)))] >>

\* a response text used as it comes, without the fallback
DeepTextRaw(text) == text

\* response.text || "Nessun risultato ricevuto."
DeepText(text) == IF text = "" THEN "Nessun risultato ricevuto." ELSE text

\* faulty variant of DeepMerge: the state is rebuilt from the text alone
DeepMergeAlone(prev, text) ==
    << [f \in StateFields |-> IF f = "deepAnalysis" THEN <<DeepText(text)>> ELSE <<>>] >>

\* the updater passed to setPokerState by runDeepAnalysis: { ...prev!, deepAnalysis }
DeepMerge(prev, text) ==
    << [f \in StateFields |->
          IF f = "deepAnalysis" THEN <<DeepText(text)>> ELSE PrevField(prev, f)] >>

\* the arguments of the function calls that are tried
NoArgs == [f \in ArgFields |-> <<>>]
ArgsWinOnly == [NoArgs EXCEPT !["winProbability"] = <<75>>]
ArgsEmpties ==
    [NoArgs EXCEPT !["winProbability"] = <<0>>, !["equity"] = <<0>>,
                   !["reasoning"] = <<"">>, !["holeCards"] = << <<>> >>]
ArgsFull ==
    [f \in ArgFields |->
        CASE f \in {"winProbability", "equity"} -> <<40>>
          [] f \in {"holeCards", "communityCards", "opponentEstimatedCards"} -> << <<"Ah">> >>
          [] f = "suggestedAction" -> <<"RAISE">>
          [] OTHER -> <<"text">>]
ToolArgs == {NoArgs, ArgsWinOnly, ArgsEmpties, ArgsFull}

\* the function calls that are tried, by name and arguments, and the
\* toolCall.functionCalls lists made of them
ToolCalls ==
    {[name |-> "updatePokerState", args |-> a] : a \in ToolArgs}
        \cup {[name |-> "otherTool", args |-> NoArgs]}
ToolMessages ==
    {<<fc>> : fc \in ToolCalls}
        \cup {<<[name |-> "updatePokerState", args |-> ArgsFull],
                [name |-> "updatePokerState", args |-> ArgsWinOnly]>>,
              <<[name |-> "otherTool", args |-> NoArgs],
                [name |-> "updatePokerState", args |-> ArgsEmpties]>>}

\* ---------------------------------------------------------- tool calls
\* the state after the setPokerState calls of the loop of handleToolCall
RECURSIVE ToolMerge(_, _)
ToolMerge(prev, fcs) ==
    IF fcs = <<>> THEN prev
    ELSE ToolMerge(IF Head(fcs).name = "updatePokerState"
                     THEN MergeToolArgs(prev, Head(fcs).args) ELSE prev,
                   Tail(fcs))

\* the function responses sent by the loop of handleToolCall for calls whose
\* ids start after firstId
RECURSIVE ToolAcks(_, _, _)
ToolAcks(fcs, firstId, ref) ==
    IF fcs = <<>> THEN <<>>
    ELSE (IF Head(fcs).name = "updatePokerState" /\ ref # NULL
            THEN <<[id |-> firstId + 1, name |-> Head(fcs).name, success |-> TRUE]>>
            ELSE <<>>)
         \o ToolAcks(Tail(fcs), firstId + 1, ref)

\* the ids and names of the calls of a message, for the history
RECURSIVE Invocations(_, _)
Invocations(fcs, firstId) ==
    IF fcs = <<>> THEN <<>>
    ELSE <<[id |-> firstId + 1, name |-> Head(fcs).name]>>
         \o Invocations(Tail(fcs), firstId + 1)

\* onmessage of an open session for a message that carries toolCall and no
\* serverContent: handleToolCall(fcs)
ToolCallMessage(fcs) ==
    /\ sess.open > 0 /\ steps < MaxSteps
    /\ steps' = steps + 1
    /\ pokerState' = ToolMerge(pokerState, fcs)
    /\ toolResponses' = toolResponses \o ToolAcks(fcs, Len(received), sessionRef)
    /\ received' = received \o Invocations(fcs, Len(received))
    /\ alast' = "tool"
    /\ UNCHANGED <<connection, isDeepAnalyzing, deepCaptures, deepRequests, deepWritten,
                   regionVars, playVars, clockMs>>

\* -------------------------------------------------------- deep analysis
\* runDeepAnalysis() to its first suspension: the guard on screen sharing,
\* the flag, getApiKey() (whose throw runs the catch and the finally block)
\* and the call of captureFrame
RunDeepAnalysis ==
    /\ mounted /\ steps < MaxSteps
    /\ steps' = steps + 1
    /\ IF ~isStreamingScreen
         THEN /\ alast' = "deepRejected"
              /\ UNCHANGED <<isDeepAnalyzing, deepCaptures, error, isPermissionError>>
         ELSE IF ~apiKey
           THEN /\ error' = HandleErrorMsg(ApiKeyError, "Deep Analysis")
                /\ isPermissionError' = HandleErrorFlag(ApiKeyError, isPermissionError)
                /\ isDeepAnalyzing' = FALSE
                /\ alast' = "deepFailed"
                /\ UNCHANGED deepCaptures
           ELSE /\ isDeepAnalyzing' = TRUE
                /\ deepCaptures' = deepCaptures + 1
                /\ alast' = "deepStarted"
                /\ UNCHANGED <<error, isPermissionError>>
    /\ UNCHANGED <<connectionButError, pokerState, deepRequests, received,
                   toolResponses, deepWritten, regionVars, playVars, clockMs>>

\* captureFrame resolves for a deep analysis: with a frame the request is
\* sent, with none the call throws and ends through catch and finally
DeepFrameCaptured(frame) ==
    /\ deepCaptures > 0
    /\ deepCaptures' = deepCaptures - 1
    /\ IF frame
         THEN /\ deepRequests' = deepRequests + 1
              /\ alast' = "deepRequested"
              /\ UNCHANGED <<isDeepAnalyzing, error, isPermissionError>>
         ELSE /\ error' = HandleErrorMsg([cls |-> "Error", message |-> "other"],
                                         "Deep Analysis")
              /\ isPermissionError' =
                    HandleErrorFlag([cls |-> "Error", message |-> "other"],
                                    isPermissionError)
              /\ isDeepAnalyzing' = FALSE
              /\ alast' = "deepFailed"
              /\ UNCHANGED deepRequests
    /\ UNCHANGED <<connectionButError, pokerState, received, toolResponses,
                   deepWritten, regionVars, playVars, clockMs, steps>>

\* the tags `alast` carries after a merge: "deepMergedOffline" when the last
\* step of the connection before the merge was a disconnect()
DeepMergedTags == {"deepMerged", "deepMergedOffline"}

\* generateContent resolves: the text is merged and the flag cleared
DeepResponse(text) ==
    /\ deepRequests > 0
    /\ deepRequests' = deepRequests - 1
    /\ pokerState' = DeepMerge(pokerState, text)
    /\ deepWritten' = <<DeepText(text)>>
    /\ isDeepAnalyzing' = FALSE
    /\ alast' = IF last \in {"disconnect", "again"} THEN "deepMergedOffline"
                 ELSE "deepMerged"
    /\ UNCHANGED <<connection, deepCaptures, received, toolResponses, regionVars,
                   playVars, clockMs, steps>>

\* generateContent rejects: handleError and the flag cleared
DeepRequestFails ==
    /\ deepRequests > 0
    /\ deepRequests' = deepRequests - 1
    /\ \E err \in SocketErrors \cup MediaErrors :
          /\ error' = HandleErrorMsg(err, "Deep Analysis")
          /\ isPermissionError' = HandleErrorFlag(err, isPermissionError)
    /\ isDeepAnalyzing' = FALSE
    /\ alast' = "deepFailed"
    /\ UNCHANGED <<connectionButError, pokerState, deepCaptures, received,
                   toolResponses, deepWritten, regionVars, playVars, clockMs, steps>>

\* the set-up of a run: connect() and startScreenShare() calls, fewer than in
\* the specification of the connection
SetupOps == MaxOps - 1
ConnectSetup == ConnectWithin(SetupOps)
ShareSetup   == StartScreenShareWithin(SetupOps)

NextTools ==
    \/ ConnectSetup
    \/ MicGranted
    \/ OnOpen
    \/ ServerClose
    \/ ShareSetup
    \/ ShareGranted
    \/ \E fcs \in ToolMessages : ToolCallMessage(fcs)
    \/ RunDeepAnalysis
    \/ \E frame \in BOOLEAN : DeepFrameCaptured(frame)
    \/ \E text \in {"", "plan"} : DeepResponse(text)
    \/ DeepRequestFails

SpecTools == Init /\ [][NextTools]_vars

\* ----------------------------------------------------------- transcripts
\* one connect() call in a run
ConnectFirst == ConnectWithin(1)

\* the time that passes before a transcription message, in milliseconds
FragmentGaps == {0, TRANSCRIPT_MERGE_WINDOW_MS - 1, TRANSCRIPT_MERGE_WINDOW_MS}

\* onmessage of an open session for a message that carries transcriptions
\* only, gap milliseconds after the step before
TranscriptMessage(gap, outT, inT) ==
    /\ sess.open > 0 /\ steps < MaxSteps
    /\ outT \/ inT
    /\ steps' = steps + 1
    /\ clockMs' = clockMs + gap
    /\ transcripts' = Transcribe(transcripts, outT, inT, clockMs')
    /\ alast' = IF outT /\ inT THEN "fragBoth" ELSE IF outT THEN "fragAi" ELSE "fragUser"
    /\ UNCHANGED <<isActive, isStreamingScreen, error, isPermissionError, audioRefs,
                   playRefs, shareRefs, retryRefs, audioStreamRef, sessionRef, apiKey, signal,
                   mounted, shareEnv, connEnv, msgs, now, last, history, toolVars,
                   regionVars, playVars>>

NextTranscript ==
    \/ ConnectFirst
    \/ MicGranted
    \/ OnOpen
    \/ \E gap \in FragmentGaps, outT, inT \in BOOLEAN : TranscriptMessage(gap, outT, inT)

SpecTranscript == Init /\ [][NextTranscript]_vars

\* -------------------------------------------- the screen-share teardown
\* the runs of the teardown, each leaving its tag in `last`
StopScreenShareCall == StopScreenShareTagged("stopShare", "stopShareAgain")
ShareTrackEnded     == TrackEndedTagged("trackEnded")
LostShareTrackEnded == LostTrackEndedTagged("lostTrackEnded")

NextShare ==
    \/ ConnectSetup
    \/ MicGranted
    \/ OnOpen
    \/ ShareSetup
    \/ ShareGranted
    \/ ShareDenied
    \/ StopScreenShareCall
    \/ ShareTrackEnded
    \/ LostShareTrackEnded

SpecShare == Init /\ [][NextShare]_vars

\* ------------------------------------------- the message and its flag
\* resetError() called by the application, after the key selector
ResetErrorCall ==
    /\ mounted
    /\ error' = NullError
    /\ isPermissionError' = FALSE
    /\ last' = "resetError"
    /\ UNCHANGED <<isActive, isStreamingScreen, transcripts, audioRefs, playRefs,
                   shareRefs, retryRefs, audioStreamRef, sessionRef, apiKey, signal,
                   analysis, mounted, shareEnv, connEnv, msgs, now, history>>

NextErrors ==
    \/ ConnectSetup
    \/ MicGranted
    \/ MicDenied
    \/ OnOpen
    \/ TransportError
    \/ ShareSetup
    \/ ShareGranted
    \/ ShareDenied
    \/ ResetErrorCall
    \/ Disconnect

SpecErrors == Init /\ [][NextErrors]_vars

\* ------------------------------------- deep analysis across a disconnect
\* one session and one screen share, tool calls that fill the state, deep
\* analyses and disconnect() calls
NextDeep ==
    \/ ConnectFirst
    \/ MicGranted
    \/ OnOpen
    \/ ShareSetup
    \/ ShareGranted
    \/ ToolCallMessage(<<[name |-> "updatePokerState", args |-> ArgsFull]>>)
    \/ RunDeepAnalysis
    \/ \E frame \in BOOLEAN : DeepFrameCaptured(frame)
    \/ \E text \in {"", "plan"} : DeepResponse(text)
    \/ DeepRequestFails
    \/ Disconnect

SpecDeep == Init /\ [][NextDeep]_vars

\* -------------------------------------------------------------- playback
\* the time that passes on the output context before a chunk, and the
\* durations of the chunks, in units of the audio clock
ChunkGaps == {0, 1, 3}
ChunkDurations == {1, 2}

\* onmessage of an open session for a message that carries an audio chunk of
\* duration d only, gap units after the chunk before: playAudioChunk
AudioMessage(gap, d) ==
    /\ sess.open > 0 /\ steps < MaxSteps
    /\ steps' = steps + 1
    /\ playClock' = playClock + gap
    /\ IF outputAudioContextRef # NULL /\ gainNodeRef # NULL
         THEN /\ nextStartTimeRef' = PlayStart(nextStartTimeRef, playClock') + d
              /\ audioSourcesRef' =
                    audioSourcesRef \cup {PlayStart(nextStartTimeRef, playClock')}
              /\ scheduled' = Append(scheduled,
                                     <<PlayStart(nextStartTimeRef, playClock'),
                                       PlayStart(nextStartTimeRef, playClock') + d,
                                       calls>>)
         ELSE UNCHANGED <<playRefs, scheduled>>
    /\ alast' = "chunk"
    /\ UNCHANGED <<stateVars, audioRefs, shareRefs, retryRefs, audioStreamRef,
                   sessionRef, apiKey, signal, mounted, shareEnv, connEnv, msgs, now, last,
                   history, toolVars, regionVars, clockMs>>

\* a chunk plays to its end
ChunkEnded == \E s \in audioSourcesRef : SourceEnded(s)

NextPlayback ==
    \/ ConnectFirst
    \/ MicGranted
    \/ OnOpen
    \/ \E gap \in ChunkGaps, d \in ChunkDurations : AudioMessage(gap, d)
    \/ ChunkEnded

SpecPlayback == Init /\ [][NextPlayback]_vars

\* playback across a session that ends and the next connect()
\* the user calls connect() when no attempt is in flight and no session is
\* open or closing
ConnectWhenIdle ==
    /\ micWait = 0 /\ sess = [connecting |-> 0, open |-> 0, closing |-> 0]
    /\ ConnectSetup

NextReplay ==
    \/ ConnectWhenIdle
    \/ MicGranted
    \/ OnOpen
    \/ ServerClose
    \/ TransportError
    \/ OnClose
    \/ \E gap \in ChunkGaps, d \in ChunkDurations : AudioMessage(gap, d)

SpecReplay == Init /\ [][NextReplay]_vars

\* ------------------------------------------------------- region analysis
\* faulty variant of Throttled: the window includes its end
ThrottledInclusive(ms, lastMs) == ms - lastMs <= ANALYZE_THROTTLE_MS

\* the throttle test of analyzeRegion
Throttled(ms, lastMs) == ms - lastMs < ANALYZE_THROTTLE_MS

\* the time that passes before a click on the video, in milliseconds
ClickGaps == {0, 1, ANALYZE_THROTTLE_MS - 1, ANALYZE_THROTTLE_MS}

\* faulty variant of RegionPrompt: the hero band includes its lower end
RegionPromptInclusive(y) ==
    IF y >= HERO_AREA_Y THEN "FOCUS_HERO"
    ELSE IF y > BOARD_AREA_Y_MIN /\ y <= BOARD_AREA_Y_MAX THEN "FOCUS_BOARD"
    ELSE "FOCUS_GENERAL"

\* the instruction analyzeRegion chooses for y (the name of the PROMPTS entry)
RegionPrompt(y) ==
    IF y > HERO_AREA_Y THEN "FOCUS_HERO"
    ELSE IF y > BOARD_AREA_Y_MIN /\ y <= BOARD_AREA_Y_MAX THEN "FOCUS_BOARD"
    ELSE "FOCUS_GENERAL"

\* the band label VideoPreview shows for y
ClickType(y) ==
    IF y > 65 THEN "HERO" ELSE IF y > 25 /\ y <= 65 THEN "BOARD" ELSE "SCAN"

\* a sequence without its i-th element
RemoveAt(seq, i) == SubSeq(seq, 1, i - 1) \o SubSeq(seq, i + 1, Len(seq))

\* analyzeRegion(x, y), gap milliseconds after the step before, up to its
\* return or to await captureFrame.  isActiveRef and isStreamingScreenRef
\* follow the state they mirror.
AnalyzeRegionAt(gap, y) ==
    /\ mounted /\ steps < MaxSteps
    /\ steps' = steps + 1
    /\ clockMs' = clockMs + gap
    /\ IF Throttled(clockMs', lastAnalyzeTimeRef)
         THEN /\ alast' = "regionDropped"
              /\ UNCHANGED <<lastAnalyzeTimeRef, accepted, regionCaptures, pendingY>>
         ELSE /\ lastAnalyzeTimeRef' = clockMs'
              /\ accepted' = accepted + 1
              /\ IF isActive /\ isStreamingScreen
                   THEN /\ regionCaptures' = regionCaptures + 1
                        /\ pendingY' = Append(pendingY, y)
                        /\ alast' = "regionCapturing"
                   ELSE /\ alast' = "regionIdle"
                        /\ UNCHANGED <<regionCaptures, pendingY>>
    /\ UNCHANGED <<connection, toolVars, playVars, sent, prompts>>

\* analyzeRegion called with a y on the edge of two bands, not through
\* VideoPreview
AnalyzeRegion(gap) == AnalyzeRegionAt(gap, BOARD_AREA_Y_MAX) /\ clickEffect' = clickEffect

\* a faulty variant of sendSafeInput that does not look at the session handle
SendSafeInputUnguarded(ref, input) == <<input>>

\* what sendSafeInput sends
SendSafeInput(ref, input) == IF ref # NULL THEN <<input>> ELSE <<>>

\* captureFrame resolves for a region analysis: the frame, when there is one,
\* and then the prompt go through sendSafeInput
RegionFrameCaptured(frame) ==
    /\ regionCaptures > 0
    /\ regionCaptures' = regionCaptures - 1
    /\ \E i \in 1..Len(pendingY) :
          /\ pendingY' = RemoveAt(pendingY, i)
          /\ prompts' = Append(prompts, <<pendingY[i], RegionPrompt(pendingY[i])>>)
    /\ sent' = sent \o (IF frame THEN SendSafeInput(sessionRef, "frame") ELSE <<>>)
                    \o SendSafeInput(sessionRef, "prompt")
    /\ alast' = "regionSent"
    /\ UNCHANGED <<connection, toolVars, playVars, lastAnalyzeTimeRef, accepted,
                   clickEffect, clockMs, steps>>

NextRegion ==
    \/ ConnectSetup
    \/ MicGranted
    \/ OnOpen
    \/ ServerClose
    \/ ShareSetup
    \/ ShareGranted
    \/ \E gap \in ClickGaps : AnalyzeRegion(gap)
    \/ \E frame \in BOOLEAN : RegionFrameCaptured(frame)

SpecRegion == Init /\ [][NextRegion]_vars

\* -------------------------------------------------- the bands of a click
\* the y of the clicks tried, in hundredths: the ends of [0, 1] and both
\* sides of each threshold
ClickYs == {0, BOARD_AREA_Y_MIN - 1, BOARD_AREA_Y_MIN, BOARD_AREA_Y_MIN + 1,
            BOARD_AREA_Y_MAX - 1, BOARD_AREA_Y_MAX, BOARD_AREA_Y_MAX + 1, 100}

\* VideoPreview.handleClick at height y: analyzeRegion is called through
\* onVideoClick and the band label is shown
HandleClick(y, gap) ==
    /\ accepted < MaxClicks
    /\ isStreamingScreen
    /\ AnalyzeRegionAt(gap, y)
    /\ clickEffect' = <<[y |-> y, type |-> ClickType(y)]>>

\* the timeout of handleClick removes the label
ClickEffectExpires ==
    /\ clickEffect # <<>>
    /\ clickEffect' = <<>>
    /\ UNCHANGED <<connection, toolVars, playVars, lastAnalyzeTimeRef, regionCaptures,
                   sent, accepted, pendingY, prompts, clockMs, steps, alast>>

NextBands ==
    \/ ConnectFirst
    \/ MicGranted
    \/ OnOpen
    \/ ServerClose
    \/ ShareSetup
    \/ ShareGranted
    \/ \E y \in ClickYs, gap \in {0, ANALYZE_THROTTLE_MS} : HandleClick(y, gap)
    \/ \E frame \in BOOLEAN : RegionFrameCaptured(frame)
    \/ ClickEffectExpires

SpecBands == Init /\ [][NextBands]_vars

\* ------------------------------------------- everything that is sent
\* sendSafeInput on each input of a list, in order
RECURSIVE SendEach(_, _)
SendEach(ref, inputs) ==
    IF inputs = <<>> THEN <<>>
    ELSE SendSafeInput(ref, Head(inputs)) \o SendEach(ref, Tail(inputs))

\* a faulty variant of the sends of a scan: the instruction first
ScanInputsTextFirst(frame) == <<"scan">> \o (IF frame THEN <<"frame">> ELSE <<>>)

\* what triggerManualScan() passes to sendSafeInput once captureFrame has
\* resolved: the frame, when there is one, and PROMPTS.SCAN_IMMEDIATE
ScanInputs(frame) == (IF frame THEN <<"frame">> ELSE <<>>) \o <<"scan">>

\* the frame of the steps of this section
sendFrame == <<hookVars, workletVars, pcmVars, orderVars, toolVars, playVars, clockMs,
               lastAnalyzeTimeRef, regionCaptures, accepted, pendingY, prompts,
               clickEffect>>

\* triggerManualScan() up to its return or to await captureFrame
TriggerManualScan ==
    /\ mounted /\ steps < MaxSteps
    /\ steps' = steps + 1
    /\ IF isActive /\ isStreamingScreen
         THEN /\ scanCaptures' = scanCaptures + 1
              /\ alast' = "scanCapturing"
         ELSE /\ alast' = "scanIdle"
              /\ UNCHANGED scanCaptures
    /\ UNCHANGED <<sendFrame, sent, tickCaptures>>

\* captureFrame resolves for a scan
ScanFrameCaptured(frame) ==
    /\ scanCaptures > 0
    /\ scanCaptures' = scanCaptures - 1
    /\ sent' = sent \o SendEach(sessionRef, ScanInputs(frame))
    /\ alast' = "scanSent"
    /\ UNCHANGED <<sendFrame, steps, tickCaptures>>

\* a frame interval fires: its callback up to its return or to await
\* captureFrame
FrameTick ==
    /\ liveIntervals > 0 /\ steps < MaxSteps
    /\ steps' = steps + 1
    /\ IF isActive
         THEN /\ tickCaptures' = tickCaptures + 1
              /\ alast' = "tickCapturing"
         ELSE /\ alast' = "tickIdle"
              /\ UNCHANGED tickCaptures
    /\ UNCHANGED <<sendFrame, sent, scanCaptures>>

\* captureFrame resolves for a frame tick
TickFrameCaptured(frame) ==
    /\ tickCaptures > 0
    /\ tickCaptures' = tickCaptures - 1
    /\ sent' = sent \o (IF frame THEN SendSafeInput(sessionRef, "frame") ELSE <<>>)
    /\ alast' = IF frame /\ sessionRef = NULL THEN "tickDropped" ELSE "tickSent"
    /\ UNCHANGED <<sendFrame, steps, scanCaptures>>

\* an auto-refresh interval fires
AutoRefreshTick ==
    /\ liveAutoIntervals > 0 /\ steps < MaxSteps
    /\ steps' = steps + 1
    /\ sent' = sent \o (IF isActive /\ isStreamingScreen
                          THEN SendSafeInput(sessionRef, "refresh") ELSE <<>>)
    /\ alast' = "refresh"
    /\ UNCHANGED <<sendFrame, captureVars>>

\* the worklet node posts a block of microphone samples
MicBlock ==
    /\ workletNodeRef = HANDLE /\ steps < MaxSteps
    /\ steps' = steps + 1
    /\ sent' = sent \o SendSafeInput(sessionRef, "audio")
    /\ alast' = "mic"
    /\ UNCHANGED <<sendFrame, captureVars>>

NextSends ==
    \/ ConnectSetup
    \/ MicGranted
    \/ OnOpen
    \/ WorkletLoaded
    \/ ServerClose
    \/ ShareSetup
    \/ ShareGranted
    \/ TriggerManualScan
    \/ \E frame \in BOOLEAN : ScanFrameCaptured(frame)
    \/ FrameTick
    \/ \E frame \in BOOLEAN : TickFrameCaptured(frame)
    \/ AutoRefreshTick
    \/ MicBlock
    \/ AnalyzeRegion(ANALYZE_THROTTLE_MS)
    \/ \E frame \in BOOLEAN : RegionFrameCaptured(frame)
    \/ ToolCallMessage(<<[name |-> "updatePokerState", args |-> ArgsWinOnly]>>)

SpecSends == Init /\ [][NextSends]_vars

\* ------------------------------------------- calls that throw and are caught
\* Each send of the hook, and session.close() in disconnect(), sits in a try
\* block of its own whose catch block logs; `throws` is the set of the
\* positions, in a list of calls made in turn, of the calls that throw.

\* a faulty variant of RanThrough: the first throw ends the list
RanThroughToThrow(n, throws) ==
    IF throws \cap (1..n) = {} THEN n
    ELSE CHOOSE i \in throws \cap (1..n) : \A j \in throws \cap (1..n) : i <= j

\* how many of n calls made in turn are made when those of `throws` throw:
\* every catch block is inside the iteration, or around the one call
RanThrough(n, throws) == n

\* the elements of a list at the positions that did not throw
Kept(seq, throws) ==
    LET idx == SelectSeq([i \in 1..Len(seq) |-> i], LAMBDA i : i \notin throws)
    IN  [k \in 1..Len(idx) |-> seq[idx[k]]]

\* what the catch blocks saw among the first n calls: the call and its
\* position, counted from base
ThrownAt(n, throws, op, base) ==
    LET idx == SelectSeq([i \in 1..n |-> i], LAMBDA i : i \in throws)
    IN  [k \in 1..Len(idx) |-> [op |-> op, at |-> base + idx[k]]]

\* the hook but for the history of caught throws
quietVars == <<stateVars, audioRefs, playRefs, shareRefs, retryRefs, audioStreamRef,
               sessionRef, apiKey, mounted, shareEnv, connEnv, msgs, now, last,
               failsSinceOpen, timersSinceOpen, backoffCounts>>

\* the positions of a list of function calls whose response is sent
Responded(fcs, ref) ==
    {i \in 1..Len(fcs) : fcs[i].name = "updatePokerState" /\ ref # NULL}

\* handleToolCall(fcs) when the sendToolResponse calls of `throws` throw
ToolCallMessageThrows(fcs, throws) ==
    /\ sess.open > 0 /\ steps < MaxSteps
    /\ throws \subseteq Responded(fcs, sessionRef)
    /\ steps' = steps + 1
    /\ LET ran  == SubSeq(fcs, 1, RanThrough(Len(fcs), throws))
           base == Len(received)
       IN  /\ pokerState' = ToolMerge(pokerState, ran)
           /\ toolResponses' =
                 toolResponses \o SelectSeq(ToolAcks(ran, base, sessionRef),
                                            LAMBDA a : (a.id - base) \notin throws)
           /\ threw' = threw \o ThrownAt(Len(ran), throws, "sendToolResponse", base)
    /\ received' = received \o Invocations(fcs, Len(received))
    /\ alast' = "tool"
    /\ UNCHANGED <<quietVars, signal, isDeepAnalyzing, deepCaptures, deepRequests,
                   deepWritten, regionVars, playVars, clockMs>>

\* the positions of a list of realtime inputs that sendSafeInput passes on
Passed(inputs, ref) == {i \in 1..Len(inputs) : ref # NULL}

\* captureFrame resolves for a scan, and the sendRealtimeInput calls of
\* `throws` throw
ScanFrameCapturedThrows(frame, throws) ==
    /\ scanCaptures > 0
    /\ throws \subseteq Passed(ScanInputs(frame), sessionRef)
    /\ scanCaptures' = scanCaptures - 1
    /\ LET inputs == ScanInputs(frame)
           ran    == SubSeq(inputs, 1, RanThrough(Len(inputs), throws))
       IN  /\ sent' = sent \o SendEach(sessionRef, Kept(ran, throws))
           /\ threw' = threw \o ThrownAt(Len(ran), throws, "sendRealtimeInput", 0)
    /\ alast' = "scanSent"
    /\ UNCHANGED <<quietVars, workletVars, pcmVars, orderVars, toolVars, playVars,
                   clockMs, lastAnalyzeTimeRef, regionCaptures, accepted, pendingY,
                   prompts, clickEffect, steps, tickCaptures>>

\* what analyzeRegion passes to sendSafeInput once captureFrame has resolved
RegionInputs(frame) == (IF frame THEN <<"frame">> ELSE <<>>) \o <<"prompt">>

\* captureFrame resolves for a region analysis, and the sendRealtimeInput
\* calls of `throws` throw
RegionFrameCapturedThrows(frame, throws) ==
    /\ regionCaptures > 0
    /\ throws \subseteq Passed(RegionInputs(frame), sessionRef)
    /\ regionCaptures' = regionCaptures - 1
    /\ LET inputs == RegionInputs(frame)
           ran    == SubSeq(inputs, 1, RanThrough(Len(inputs), throws))
       IN  /\ sent' = sent \o SendEach(sessionRef, Kept(ran, throws))
           /\ threw' = threw \o ThrownAt(Len(ran), throws, "sendRealtimeInput", 0)
           /\ \E i \in 1..Len(pendingY) :
                 /\ pendingY' = RemoveAt(pendingY, i)
                 /\ prompts' = IF Len(ran) = Len(inputs)
                                 THEN Append(prompts,
                                             <<pendingY[i], RegionPrompt(pendingY[i])>>)
                                 ELSE prompts
    /\ alast' = "regionSent"
    /\ UNCHANGED <<quietVars, signal, toolVars, playVars, lastAnalyzeTimeRef, accepted,
                   clickEffect, clockMs, steps>>

\* disconnect() when session.close() throws: the socket is closing or is
\* left as it was, and the steps after the catch block run
DisconnectCloseThrows ==
    /\ mounted /\ sessionRef # NULL
    /\ DisconnectTeardown
    /\ sess' \in {sess, CloseSession(sessionRef, sess)}
    /\ threw' = Append(threw, [op |-> "close", at |-> 0])
    /\ mounted' = mounted
    /\ last' = "closeThrew"

\* the scans, region analyses and tool-call messages of a run with throws
ThrowSteps == MaxSteps - 2

\* the function-call lists tried with throws
ThrowMessages ==
    {fcs \in ToolMessages : Len(fcs) = 2}
        \cup {<<[name |-> "updatePokerState", args |-> ArgsFull]>>}

\* the steps that are counted, within ThrowSteps
EarlyToolCall(fcs, throws) == steps < ThrowSteps /\ ToolCallMessageThrows(fcs, throws)
EarlyScan == steps < ThrowSteps /\ TriggerManualScan
EarlyRegion == steps < ThrowSteps /\ AnalyzeRegion(ANALYZE_THROTTLE_MS)

NextThrows ==
    \/ ConnectFirst
    \/ MicGranted
    \/ OnOpen
    \/ ShareSetup
    \/ ShareGranted
    \/ \E fcs \in ThrowMessages, throws \in SUBSET {1, 2} : EarlyToolCall(fcs, throws)
    \/ EarlyScan
    \/ \E frame \in BOOLEAN, throws \in SUBSET {1, 2} :
          ScanFrameCapturedThrows(frame, throws)
    \/ EarlyRegion
    \/ \E frame \in BOOLEAN, throws \in SUBSET {1, 2} :
          RegionFrameCapturedThrows(frame, throws)
    \/ DisconnectCloseThrows

SpecThrows == Init /\ [][NextThrows]_vars

\* ------------------------- inbound messages and a suspended output context
\* A message is [no, d, outT, inT]: its arrival number, the duration of its
\* audio chunk (0 for none) and whether it carries an output and an input
\* transcription.  A fragment's text is the number of its message.  The
\* kinds tried: every one without audio, and with audio those that carry no
\* transcription, the output one, or both.
Messages(no) ==
    {m \in [no : {no}, d : {0, 2}, outT : BOOLEAN, inT : BOOLEAN] :
        /\ m.d > 0 \/ m.outT \/ m.inT
        /\ m.inT /\ m.d > 0 => m.outT}

\* the transcript part of onmessage for message m
TranscribeMessage(prev, m, ms) ==
    LET afterOut == IF m.outT THEN HandleTranscription(prev, <<m.no>>, "ai", ms)
                    ELSE prev
    IN  IF m.inT THEN HandleTranscription(afterOut, <<m.no>>, "user", ms) ELSE afterOut

\* the same for the handlers of a list, one after the other
RECURSIVE TranscribeEach(_, _, _)
TranscribeEach(prev, handlers, ms) ==
    IF handlers = <<>> THEN prev
    ELSE TranscribeEach(TranscribeMessage(prev, Head(handlers), ms), Tail(handlers), ms)

\* source.start(nextStartTimeRef.current) and the addition of the duration
\* for the handlers of a list, one after the other, the first at start
RECURSIVE StartEach(_, _, _)
StartEach(handlers, start, waited) ==
    IF handlers = <<>> THEN <<>>
    ELSE <<[no |-> Head(handlers).no, start |-> start,
            end |-> start + Head(handlers).d, waited |-> waited]>>
         \o StartEach(Tail(handlers), start + Head(handlers).d, waited)

\* the end of the last chunk of a list, or start for an empty list
EndOf(chunks, start) == IF chunks = <<>> THEN start ELSE chunks[Len(chunks)].end

\* a faulty variant of ResumeOrder: the handler that waited last runs first
ResumeOrderReversed(handlers) ==
    [k \in 1..Len(handlers) |-> handlers[Len(handlers) + 1 - k]]

\* the order in which the handlers waiting on resume() continue: the order
\* of their resume() calls
ResumeOrder(handlers) == handlers

\* the frame of the steps of this section
orderFrame == <<isActive, isStreamingScreen, error, isPermissionError, audioRefs,
                shareRefs, retryRefs, audioStreamRef, sessionRef, apiKey, mounted,
                shareEnv, connEnv, now, last, history, workletVars, pcmVars,
                captureVars, toolVars, regionVars, scheduled, clockMs>>

\* the output context is suspended by the browser
ContextSuspends ==
    /\ outputAudioContextRef = HANDLE
    /\ ~ctxSuspended
    /\ ctxSuspended' = TRUE
    /\ UNCHANGED <<orderFrame, transcripts, playRefs, msgs, playClock, steps, alast,
                   parked, heard>>

\* onmessage of an open session for message m, gap units of the audio clock
\* after the step before: up to await ctx.resume() when the message has audio
\* and the context is suspended, to its end otherwise
InboundMessage(m, gap) ==
    /\ sess.open > 0 /\ steps < MaxSteps
    /\ m.no = msgs + 1
    /\ steps' = steps + 1
    /\ msgs' = m.no
    /\ playClock' = IF ctxSuspended THEN playClock ELSE playClock + gap
    /\ IF m.d > 0 /\ outputAudioContextRef # NULL /\ gainNodeRef # NULL
         THEN IF ctxSuspended
                THEN /\ parked' = Append(parked, m)
                     /\ alast' = "parked"
                     /\ UNCHANGED <<playRefs, heard, transcripts>>
                ELSE LET start == PlayStart(nextStartTimeRef, playClock')
                     IN  /\ nextStartTimeRef' = start + m.d
                         /\ audioSourcesRef' = audioSourcesRef \cup {start}
                         /\ heard' = heard \o StartEach(<<m>>, start, FALSE)
                         /\ transcripts' = TranscribeMessage(transcripts, m, clockMs)
                         /\ alast' = "handled"
                         /\ UNCHANGED parked
         ELSE /\ transcripts' = TranscribeMessage(transcripts, m, clockMs)
              /\ alast' = "handled"
              /\ UNCHANGED <<playRefs, heard, parked>>
    /\ UNCHANGED <<orderFrame, ctxSuspended>>

\* resume() resolves: the handlers that waited continue in turn, each up to
\* await decodeAudioData, then each from there to the end of playAudioChunk,
\* then each through the transcript part of onmessage
ContextResumed ==
    /\ ctxSuspended /\ parked # <<>>
    /\ ctxSuspended' = FALSE
    /\ parked' = <<>>
    /\ LET handlers == ResumeOrder(parked)
           chunks   == StartEach(handlers, PlayStart(nextStartTimeRef, playClock), TRUE)
       IN  /\ heard' = heard \o chunks
           /\ nextStartTimeRef' = EndOf(chunks, nextStartTimeRef)
           /\ audioSourcesRef' =
                 audioSourcesRef \cup {chunks[k].start : k \in 1..Len(chunks)}
           /\ transcripts' = TranscribeEach(transcripts, handlers, clockMs)
    /\ alast' = "resumed"
    /\ UNCHANGED <<orderFrame, msgs, playClock, steps>>

NextOrder ==
    \/ ConnectFirst
    \/ MicGranted
    \/ OnOpen
    \/ ContextSuspends
    \/ \E m \in Messages(msgs + 1), gap \in {0, 3} : InboundMessage(m, gap)
    \/ ContextResumed

SpecOrder == Init /\ [][NextOrder]_vars

\* ---------------------------------------------------- the capture worklet
\* a faulty variant of the reset after a post: the write index is kept
ResetIndexKept(index) == index

\* this.bufferIndex = 0 after a post
ResetIndex(index) == 0

\* this.bufferIndex >= this.bufferSize
BufferFull(index) == index >= bufferSize

\* this.buffer.slice(0): a copy of the whole buffer
Slice(buf) == [k \in 1..bufferSize |-> buf[k - 1]]

\* the for loop of process() over channelData: each sample is written at the
\* write index, and a full buffer is posted and the index reset
RECURSIVE ProcessSamples(_, _, _, _)
ProcessSamples(buf, index, out, channelData) ==
    IF channelData = <<>>
      THEN [buffer |-> buf, bufferIndex |-> index, posted |-> out]
      ELSE LET written == [i \in DOMAIN buf |->
                             IF i = index THEN Head(channelData) ELSE buf[i]]
               next    == index + 1
           IN  IF BufferFull(next)
                 THEN ProcessSamples(written, ResetIndex(next),
                                     Append(out, Slice(written)), Tail(channelData))
                 ELSE ProcessSamples(written, next, out, Tail(channelData))

\* the inputs of one call: inputs[0] with no channel, or with one channel of
\* n samples, each sample named by its position in the stream
Samples(from, n) == [k \in 1..n |-> from + k]
WorkletInputs == {<<>>} \cup {<<Samples(Len(fed), n)>> : n \in 0..MaxChunk}

\* process(inputs, outputs, parameters)
Process(input) ==
    /\ steps < MaxSteps
    /\ steps' = steps + 1
    /\ IF Len(input) > 0
         THEN LET after == ProcessSamples(buffer, bufferIndex, posted, input[1])
              IN  /\ buffer' = after.buffer
                  /\ bufferIndex' = after.bufferIndex
                  /\ posted' = after.posted
                  /\ fed' = fed \o input[1]
         ELSE UNCHANGED <<buffer, bufferIndex, posted, fed>>
    /\ returned' = <<TRUE>>
    /\ UNCHANGED <<hookVars, pcmVars, captureVars, orderVars, toolVars, regionVars,
                   playVars, clockMs, alast>>

NextWorklet == \E input \in WorkletInputs : Process(input)

SpecWorklet == Init /\ [][NextWorklet]_vars

\* ------------------------------------------------------- the PCM codec
Min(x, y) == IF x <= y THEN x ELSE y

\* Math.max(-1, Math.min(1, data[i])), in units of 1/SampleSteps
Clamp(x) == Max(0 - SampleSteps, Min(SampleSteps, x))

\* the integer part of num / den, as the conversion of a number to an integer
\* takes it: towards zero
Trunc(num, den) == IF num >= 0 THEN num \div den ELSE 0 - ((0 - num) \div den)

\* the store into an Int16Array: the integer modulo 2^16, read as signed
ToInt16(v) == ((v + 32768) % 65536) - 32768

\* a faulty variant of the scale: 0x7FFF for the negative samples too
ScaleOfPositive(sample) == POS_SCALE

\* sample < 0 ? 0x8000 : 0x7FFF
Scale(sample) == IF sample < 0 THEN NEG_SCALE ELSE POS_SCALE

\* int16[i] of pcmToGeminiAudioBlob for data[i] = x / SampleSteps
EncodeSample(x) ==
    LET sample == Clamp(x)
    IN  ToInt16(Trunc(sample * Scale(sample), SampleSteps))

\* channelData[i] of decodeAudioData, v / 32768.0, in units of
\* 1/(SampleSteps * DECODE_SCALE)
DecodeSample(v) == v * SampleSteps

\* a sample in the units of the decoded value
InDecodedUnits(x) == x * DECODE_SCALE

\* the distance of two numbers
Distance(x, y) == IF x >= y THEN x - y ELSE y - x

\* the samples tried: [-1, 1] and one step beyond each end
PcmInputs == (0 - SampleSteps - 1)..(SampleSteps + 1)

InitPcm == InitHook /\ pcmData \in PcmInputs /\ int16 = <<>> /\ decoded = <<>>

\* pcmToGeminiAudioBlob on the sample
PcmEncode ==
    /\ int16 = <<>>
    /\ int16' = <<EncodeSample(pcmData)>>
    /\ UNCHANGED <<hookVars, analysis, workletVars, captureVars, orderVars, pcmData,
                   decoded>>

\* decodeAudioData on the bytes of the encoded sample
PcmDecode ==
    /\ int16 # <<>> /\ decoded = <<>>
    /\ decoded' = <<DecodeSample(int16[1])>>
    /\ UNCHANGED <<hookVars, analysis, workletVars, captureVars, orderVars, pcmData,
                   int16>>

NextPcm == PcmEncode \/ PcmDecode

SpecPcm == InitPcm /\ [][NextPcm]_vars

\* ======================================================= the claims
\* C1: after disconnect() returns, from any reachable state, the retry
\* timeout the ref pointed at is cleared and the ref is null; close() was
\* called on the session the ref pointed at and the ref is null; no playback
\* unit is tracked; the microphone and the display stream the refs pointed at
\* are stopped and the refs are null; the worklet ref is null; both audio
\* contexts the refs pointed at are closed and the refs (and the gain ref) are
\* null; both capture intervals the refs pointed at are cleared and the refs
\* are null; isActive and isStreamingScreen are false, transcripts is empty
\* and nextStartTime is 0.
C1_DisconnectReleasesAll ==
    [][ last' \in {"disconnect", "again", "unmount"} =>
          /\ retryTimeoutRef' = NULL
          /\ liveRetryTimers' = liveRetryTimers - Held(retryTimeoutRef)
          /\ sessionRef' = NULL
          /\ sess'.open = sess.open - Held(sessionRef)
          /\ sess'.closing = sess.closing + Held(sessionRef)
          /\ audioSourcesRef' = {}
          /\ audioStreamRef' = NULL /\ liveMic' = liveMic - Held(audioStreamRef)
          /\ mediaStreamRef' = NULL /\ liveScreen' = liveScreen - Held(mediaStreamRef)
          /\ workletNodeRef' = NULL
          /\ inputAudioContextRef' = NULL /\ outputAudioContextRef' = NULL
          /\ gainNodeRef' = NULL
          /\ openContexts' = openContexts - Held(inputAudioContextRef)
                                          - Held(outputAudioContextRef)
          /\ videoIntervalRef' = NULL
          /\ liveIntervals' = liveIntervals - Held(videoIntervalRef)
          /\ autoAnalysisIntervalRef' = NULL
          /\ liveAutoIntervals' = liveAutoIntervals - Held(autoAnalysisIntervalRef)
          /\ isActive' = FALSE /\ isStreamingScreen' = FALSE
          /\ transcripts' = <<>> /\ nextStartTimeRef' = 0 ]_vars

\* disconnect() has just run on a hook that had connected, shared its screen
\* and handled a message: the session it held is closing and nothing is live
C1_Witness ==
    /\ last = "disconnect"
    /\ calls > 0 /\ shareCalls > 0 /\ msgs > 0
    /\ sess.closing > 0 /\ sess.open = 0 /\ sessionRef = NULL
    /\ liveMic = 0 /\ liveScreen = 0 /\ openContexts = 0

\* C2: right after the unmount clean-up nothing acquired earlier is live: no
\* stream with running tracks, no interval or retry timeout that can fire, no
\* open audio context, no open session, overwritten handles included.
C2_UnmountLeavesNothingLive ==
    last = "unmount" =>
        /\ liveMic = 0 /\ liveScreen = 0
        /\ liveIntervals = 0 /\ liveAutoIntervals = 0 /\ liveRetryTimers = 0
        /\ openContexts = 0
        /\ sess.open = 0

\* C3: at most one session is open, and an open session is the one the
\* session ref points at.
C3_OneOpenSessionHeld ==
    /\ sess.open <= 1
    /\ sess.open = 1 => sessionRef = HANDLE

\* C4: a connect() call made while a session is open acquires nothing and
\* leaves the session, the streams and the contexts as they are.
C4_ConnectGuardedWhileOpen ==
    [][ (calls' = calls + 1 /\ sess.open > 0) =>
          /\ openContexts' = openContexts
          /\ micWait' = micWait
          /\ UNCHANGED <<inputAudioContextRef, outputAudioContextRef, gainNodeRef,
                         audioStreamRef, liveMic, sessionRef, sess>> ]_vars

\* C5: right after disconnect() no retry timeout is pending, so no connect
\* attempt starts by itself, however many failed calls scheduled one.
C5_DisconnectCancelsEveryRetry ==
    last = "disconnect" => liveRetryTimers = 0

\* C10: a connect() call without a credential sets the Connection error at
\* once, schedules no retry, leaves retryCount alone and acquires no audio
\* context, no microphone request or stream and no session.
C10_MissingKeyFailsAtOnce ==
    [][ (calls' = calls + 1 /\ ~apiKey) =>
          /\ error' = [context |-> "Connection", message |-> "nokey"]
          /\ liveRetryTimers' <= liveRetryTimers
          /\ retryTimeoutRef' # HANDLE
          /\ retryCountRef' = retryCountRef
          /\ UNCHANGED <<inputAudioContextRef, outputAudioContextRef, gainNodeRef,
                         openContexts, micWait, audioStreamRef, liveMic, sessionRef,
                         sess>> ]_vars

\* connect() has failed for the missing credential, twice, and the hook holds
\* nothing
C10_Witness ==
    /\ ~apiKey /\ last = "noKey" /\ calls = 2
    /\ error = [context |-> "Connection", message |-> "nokey"]
    /\ openContexts = 0 /\ micWait = 0 /\ liveRetryTimers = 0 /\ retryCountRef = 0

C7_RetryingTerminates ==
    /\ retryCountRef <= MAX_RETRIES
    /\ timersSinceOpen <= MAX_RETRIES
    /\ (last = "micDenied" /\ failsSinceOpen > MAX_RETRIES) =>
          /\ liveRetryTimers = 0
          /\ ~isActive
          /\ error # NullError

\* C8: the session's onerror callback, run while retryCount is below
\* MAX_RETRIES, schedules a retry: one more retry timeout is pending, the ref
\* points at it and retryCount is one higher.
C8_TransportFailureRetried ==
    [][ (last' = "onerror" /\ retryCountRef < MAX_RETRIES) =>
          /\ liveRetryTimers' = liveRetryTimers + 1
          /\ retryTimeoutRef' = HANDLE
          /\ retryCountRef' = retryCountRef + 1 ]_vars

\* C9: a rejected microphone request in connect() and a rejected display
\* request in startScreenShare() set the error and schedule no retry: the
\* pending retry timeouts and retryCount are as before.
C9_CaptureErrorsNotRetried ==
    [][ last' \in {"micDenied", "shareDenied"} =>
          /\ error' # NullError
          /\ liveRetryTimers' = liveRetryTimers
          /\ retryCountRef' = retryCountRef ]_vars

\* C11: the retry count is the number of retryable failures since the last
\* open (or since the start), capped at MAX_RETRIES: an open sets it to 0
\* whatever came before, and the first failure after an open makes it 1 again.
C11_OpenResetsRetryCount ==
    /\ retryCountRef = IF failsSinceOpen < MAX_RETRIES THEN failsSinceOpen
                                                        ELSE MAX_RETRIES
    /\ (isActive /\ failsSinceOpen = 0) => retryCountRef = 0

\* a session is open that opened after a failed attempt, and one more attempt
\* has failed since: two retry timeouts were scheduled, the count is 1
C11_Witness ==
    /\ sess.open = 1 /\ isActive
    /\ last = "micDenied"
    /\ liveRetryTimers + Held(retryTimeoutRef) >= 2 /\ calls = 3
    /\ failsSinceOpen = 1 /\ retryCountRef = 1

\* C12: disconnect() called when nothing has been connected, or right after
\* another disconnect(), changes no handle, timer, flag or list, and leaves
\* every handle null and nothing tracked.
C12_DisconnectIdempotent ==
    [][ (last \in {"init", "disconnect", "again"}
           /\ last' \in {"disconnect", "again", "unmount"}) =>
          /\ UNCHANGED <<stateVars, audioRefs, playRefs, shareRefs, retryRefs,
                         audioStreamRef, sessionRef, shareEnv, connEnv>>
          /\ retryTimeoutRef' = NULL /\ sessionRef' = NULL
          /\ audioStreamRef' = NULL /\ mediaStreamRef' = NULL
          /\ workletNodeRef' = NULL /\ gainNodeRef' = NULL
          /\ inputAudioContextRef' = NULL /\ outputAudioContextRef' = NULL
          /\ videoIntervalRef' = NULL /\ autoAnalysisIntervalRef' = NULL
          /\ audioSourcesRef' = {} ]_vars

\* disconnect() has run twice in a row on a hook that had opened a session
C12_Witness ==
    /\ last = "again"
    /\ calls > 0 /\ sess.closing > 0
    /\ sessionRef = NULL /\ ~isActive /\ openContexts = 0

\* C13: every function call received so far, whatever its name, has been
\* answered by exactly one tool response carrying its id and a success
\* result, in the order of the calls.
C13_EveryCallAcknowledged ==
    toolResponses = [i \in 1..Len(received) |->
                        [id |-> received[i].id, name |-> received[i].name,
                         success |-> TRUE]]

\* C14: merging the arguments of an updatePokerState call into a non-null
\* state gives each field that is present in the arguments (0, "" and the
\* empty array included) the argument's value and leaves each absent field
\* at its value before the merge.
C14_LatestNonAbsentWins ==
    pokerState # <<>> =>
        \A args \in ToolArgs : \A f \in ArgFields :
            MergeToolArgs(pokerState, args)[1][f] =
                IF args[f] # <<>> THEN args[f] ELSE pokerState[1][f]

\* C15: deepAnalysis is what the deep-analysis flow wrote last, or undefined
\* when that flow never completed, whatever tool calls were merged.
C15_ToolCallsKeepDeepAnalysis ==
    PrevField(pokerState, "deepAnalysis") = deepWritten

\* a tool call was merged into a state that holds a deep analysis
C15_Witness ==
    /\ alast = "tool"
    /\ deepWritten = <<"plan">>
    /\ PrevField(pokerState, "winProbability") = <<75>>
    /\ PrevField(pokerState, "deepAnalysis") = <<"plan">>

\* C16: the merge of a deep-analysis response leaves every field but
\* deepAnalysis at the value it had just before the merge, and sets
\* deepAnalysis.
C16_DeepMergeTouchesDeepOnly ==
    [][ (deepRequests' = deepRequests - 1 /\ alast' \in DeepMergedTags) =>
          /\ \A f \in ArgFields :
                PrevField(pokerState', f) = PrevField(pokerState, f)
          /\ PrevField(pokerState', "deepAnalysis") # <<>> ]_vars

\* a deep-analysis response was merged into a state that tool calls had
\* filled, the last of them setting winProbability alone
C16_Witness ==
    /\ alast \in DeepMergedTags
    /\ Len(received) >= 2
    /\ PrevField(pokerState, "winProbability") = <<75>>
    /\ PrevField(pokerState, "suggestedAction") = <<"RAISE">>
    /\ PrevField(pokerState, "deepAnalysis") = <<"plan">>

\* C17: isDeepAnalyzing is true exactly while a runDeepAnalysis() call that
\* passed the guard has not completed: true while any capture or request of
\* a deep analysis is in flight, false when none is.
C17_FlagCoversEveryRequest ==
    isDeepAnalyzing <=> (deepCaptures + deepRequests > 0)

\* C18: a transcript fragment is concatenated to the last entry exactly when
\* that entry has the fragment's source and the fragment arrives less than
\* TRANSCRIPT_MERGE_WINDOW_MS after the entry's timestamp; otherwise (later,
\* another source, empty list) it is appended as a new entry.  The entries
\* before the last are left as they are, in their order.
C18_FragmentMergedOrAppended ==
    [][ (steps' = steps + 1 /\ alast' \in {"fragAi", "fragUser"}) =>
          LET n    == Len(transcripts)
              m    == Len(transcripts')
              src  == IF alast' = "fragAi" THEN "ai" ELSE "user"
              frag == IF alast' = "fragAi" THEN <<"o">> ELSE <<"i">>
              near == /\ n > 0
                      /\ transcripts[n].source = src
                      /\ clockMs' - transcripts[n].timestamp < 2000
          IN  IF near
                THEN /\ m = n
                     /\ \A i \in 1..(n - 1) : transcripts'[i] = transcripts[i]
                     /\ transcripts'[n].source = src
                     /\ transcripts'[n].text = transcripts[n].text \o frag
                ELSE /\ m = n + 1
                     /\ \A i \in 1..n : transcripts'[i] = transcripts[i]
                     /\ transcripts'[m].source = src
                     /\ transcripts'[m].text = frag ]_vars

\* two fragments of one source were merged and a third one of that source,
\* arriving exactly at the end of the window, made a new entry
C18_Witness ==
    /\ alast \in {"fragAi", "fragUser"}
    /\ Len(transcripts) = 2
    /\ transcripts[1].source = transcripts[2].source
    /\ Len(transcripts[1].text) = 2 /\ Len(transcripts[2].text) = 1
    /\ transcripts[2].timestamp - transcripts[1].timestamp = TRANSCRIPT_MERGE_WINDOW_MS

\* C19: each chunk starts at the later of the output clock at its enqueue and
\* the end of the chunk before it, nextStartTime is then the chunk's end, no
\* two chunks started so far overlap, and nextStartTime does not decrease.
C19_ChunksBackToBack ==
    [][ (steps' = steps + 1 /\ alast' = "chunk" /\ outputAudioContextRef # NULL) =>
          LET k       == Len(scheduled')
              prevEnd == IF k = 1 THEN 0 ELSE scheduled[k - 1][2]
          IN  /\ k = Len(scheduled) + 1
              /\ scheduled'[k][1] = IF playClock' > prevEnd THEN playClock' ELSE prevEnd
              /\ scheduled'[k][2] > scheduled'[k][1]
              /\ nextStartTimeRef' = scheduled'[k][2]
              /\ nextStartTimeRef' >= nextStartTimeRef
              /\ \A i \in 1..k : \A j \in (i + 1)..k :
                    scheduled'[i][2] <= scheduled'[j][1] ]_vars

\* three chunks: the second queued right behind the first, the third started
\* at the clock after the queue had run empty
C19_Witness ==
    /\ alast = "chunk" /\ Len(scheduled) = 3
    /\ scheduled[2][1] = scheduled[1][2] /\ scheduled[2][1] > 0
    /\ scheduled[3][1] > scheduled[2][2] /\ scheduled[3][1] = playClock
    /\ nextStartTimeRef = scheduled[3][2]

\* C20: an analyzeRegion call made less than ANALYZE_THROTTLE_MS after the
\* last call that passed the throttle changes nothing and starts no capture,
\* so it sends nothing then or later; a call made once the window has elapsed
\* passes, and with the session connected and the screen shared it starts one
\* capture whose completion sends the frame, if any, and then one prompt.
\* Calls that pass are at least a window apart and nothing is sent without one.
C20_RegionThrottled ==
    [][ /\ (steps' = steps + 1 /\ alast' \in {"regionDropped", "regionCapturing",
                                            "regionIdle"}) =>
              IF clockMs' - lastAnalyzeTimeRef < 500
                THEN UNCHANGED <<lastAnalyzeTimeRef, regionCaptures, sent, accepted>>
                ELSE /\ lastAnalyzeTimeRef' = clockMs'
                     /\ accepted' = accepted + 1
                     /\ sent' = sent
                     /\ (isActive /\ isStreamingScreen) =>
                            regionCaptures' = regionCaptures + 1
        /\ (regionCaptures' = regionCaptures - 1 /\ sessionRef # NULL) =>
              \/ sent' = sent \o <<"frame", "prompt">>
              \/ sent' = sent \o <<"prompt">>
        /\ Len(SelectSeq(sent', LAMBDA x : x = "prompt")) + regionCaptures' <= accepted'
        /\ accepted' <= 1 + (clockMs' - StartMs) \div 500 ]_vars

\* two clicks inside one window gave one frame and prompt, a third click at
\* the end of the window a second one
C20_Witness ==
    /\ steps = 3 /\ accepted = 2
    /\ clockMs = StartMs + ANALYZE_THROTTLE_MS
    /\ sent = <<"frame", "prompt", "frame", "prompt">>

\* C22: the display track's onended handler and stopScreenShare() run the same
\* teardown: after either one the auto-refresh timer and the frame timer the
\* refs pointed at are cleared and both refs are null, the display stream the
\* ref pointed at is stopped and its ref is null, and isStreamingScreen is
\* false; a stopScreenShare() that directly follows a run of the teardown
\* changes nothing
C22_ShareTeardownIdempotent ==
    [][/\ last' \in ShareStopped =>
            /\ autoAnalysisIntervalRef' = NULL
            /\ videoIntervalRef' = NULL
            /\ mediaStreamRef' = NULL
            /\ ~isStreamingScreen'
            /\ liveAutoIntervals' = liveAutoIntervals - Held(autoAnalysisIntervalRef)
            /\ liveIntervals' = liveIntervals - Held(videoIntervalRef)
            /\ liveScreen' = liveScreen - Held(mediaStreamRef)
                                - (IF last' = "lostTrackEnded" THEN 1 ELSE 0)
       /\ last' = "stopShareAgain" =>
            UNCHANGED <<stateVars, audioRefs, playRefs, shareRefs, retryRefs, shareEnv,
                        connEnv, analysis>>]_vars

\* a stopScreenShare() has just followed a teardown that released a display
\* stream and both timers
C22_Witness ==
    /\ last = "stopShareAgain"
    /\ shareCalls > 0
    /\ liveScreen = 0
    /\ liveIntervals = 0
    /\ liveAutoIntervals = 0
    /\ isActive

\* C25: no step stores a new display stream, microphone stream, frame timer or
\* auto-refresh timer over a handle whose resource is still live: the number
\* of live resources of each kind that no ref points at never grows
C25_NoLiveHandleOverwritten ==
    [][/\ liveScreen' - Held(mediaStreamRef') <= liveScreen - Held(mediaStreamRef)
       /\ liveMic' - Held(audioStreamRef') <= liveMic - Held(audioStreamRef)
       /\ liveIntervals' - Held(videoIntervalRef') <= liveIntervals - Held(videoIntervalRef)
       /\ liveAutoIntervals' - Held(autoAnalysisIntervalRef')
            <= liveAutoIntervals - Held(autoAnalysisIntervalRef)]_vars

\* C30: a disconnect() leaves the Game/Analysis State, the flag and the
\* deep-analysis captures and requests in flight as they are, and a response
\* that arrives after it is still merged: deepAnalysis becomes the text, or
\* the fallback text for an empty one, the other fields are kept and
\* isDeepAnalyzing is cleared
C30_DeepAnalysisSurvivesDisconnect ==
    [][/\ (last' \in {"disconnect", "again"} /\ last' # last) =>
            UNCHANGED <<pokerState, isDeepAnalyzing, deepCaptures, deepRequests>>
       /\ (last \in {"disconnect", "again"} /\ deepRequests' = deepRequests - 1
              /\ alast' # "deepFailed") =>
            /\ alast' = "deepMergedOffline"
            /\ PrevField(pokerState', "deepAnalysis")
                  \in {<<"plan">>, <<"Nessun risultato ricevuto.">>}
            /\ \A f \in ArgFields :
                  PrevField(pokerState', f) = PrevField(pokerState, f)
            /\ ~isDeepAnalyzing']_vars

\* a response was merged after a disconnect() into a state that a tool call
\* had filled
C30_Witness ==
    /\ alast = "deepMergedOffline"
    /\ last = "disconnect"
    /\ ~isActive /\ ~isStreamingScreen
    /\ sessionRef = NULL
    /\ PrevField(pokerState, "deepAnalysis") = <<"plan">>
    /\ PrevField(pokerState, "suggestedAction") = <<"RAISE">>
    /\ ~isDeepAnalyzing

\* C23: after any sequence of process() calls the worklet has posted one
\* message for every bufferSize samples it was given, each with bufferSize
\* samples, the k-th being the k-th block of the input in order; the write
\* index is what is left over, below bufferSize; every call returned true
C23_WorkletPostsWholeBlocks ==
    LET total  == Len(fed)
        blocks == total \div bufferSize
    IN  /\ Len(posted) = blocks
        /\ \A k \in 1..blocks :
              posted[k] = SubSeq(fed, (k - 1) * bufferSize + 1, k * bufferSize)
        /\ bufferIndex = total % bufferSize
        /\ bufferIndex \in 0..(bufferSize - 1)
        /\ returned \in {<<>>, <<TRUE>>}

\* calls that crossed the buffer's end more than once, one of them twice in
\* one call, and left a partly filled buffer
C23_Witness ==
    /\ Len(posted) >= 3
    /\ steps = 2
    /\ bufferIndex = 1
    /\ returned = <<TRUE>>

\* C24 as stated: a sample of [-1, 1] that was encoded and decoded differs
\* from the sample by at most 1/32768
C24_RoundTripWithinOneStep ==
    (decoded # <<>> /\ pcmData \in (0 - SampleSteps)..SampleSteps) =>
        Distance(InDecodedUnits(pcmData), decoded[1]) <= SampleSteps

\* C24 amended: a sample of [-1, 1] that was encoded and decoded is never
\* further from zero than the sample, and differs from it by less than
\* 2/32768, and by less than 1/32768 when the sample is negative or zero
C24_RoundTripWithinTwoSteps ==
    (decoded # <<>> /\ pcmData \in (0 - SampleSteps)..SampleSteps) =>
        /\ Distance(InDecodedUnits(pcmData), decoded[1]) < 2 * SampleSteps
        /\ pcmData <= 0 =>
              /\ Distance(InDecodedUnits(pcmData), decoded[1]) < SampleSteps
              /\ InDecodedUnits(pcmData) <= decoded[1] /\ decoded[1] <= 0
        /\ pcmData >= 0 =>
              /\ 0 <= decoded[1] /\ decoded[1] <= InDecodedUnits(pcmData)

\* a positive sample came back more than 1/32768 below itself
C24_Witness ==
    /\ decoded # <<>>
    /\ pcmData \in 1..SampleSteps
    /\ InDecodedUnits(pcmData) - decoded[1] > SampleSteps

C26_NothingSentWithoutSession ==
    [][/\ (Len(sent') > Len(sent) \/ Len(toolResponses') > Len(toolResponses)) =>
            sessionRef # NULL
       /\ (steps' = steps + 1 /\ alast' \in {"tickIdle", "tickCapturing"} /\ ~isActive) =>
            /\ tickCaptures' = tickCaptures
            /\ sent' = sent
       /\ (steps' = steps + 1 /\ alast' = "refresh" /\ ~(isActive /\ isStreamingScreen)) =>
            sent' = sent
       /\ (sessionRef = NULL
              /\ scanCaptures' + tickCaptures' + regionCaptures'
                   < scanCaptures + tickCaptures + regionCaptures) =>
            sent' = sent]_vars

\* the capture of a frame tick resolved with a frame after the session had
\* closed, and the frame was dropped
C26_Witness ==
    /\ alast = "tickDropped"
    /\ sessionRef = NULL
    /\ ~isActive
    /\ liveIntervals > 0

\* C29: at most one frame capture is awaiting its compression step at any
\* time, whichever of the frame tick, the scan, the region analysis and the
\* deep analysis started it
C29_OneCaptureAtATime ==
    tickCaptures + scanCaptures + regionCaptures + deepCaptures <= 1

\* the texts of the entries of a transcript list, one after the other
RECURSIVE Flatten(_)
Flatten(entries) ==
    IF entries = <<>> THEN <<>> ELSE Head(entries).text \o Flatten(Tail(entries))

\* C27: the fragments stand in the transcript list in the arrival order of
\* their messages: no fragment of an earlier message comes after a fragment
\* of a later one
C27_FragmentsInArrivalOrder ==
    LET texts == Flatten(transcripts)
    IN  \A i, j \in 1..Len(texts) : i < j => texts[i] <= texts[j]

C34_RequiredFieldsDefined ==
    pokerState # <<>> =>
        \A f \in {"winProbability", "suggestedAction", "reasoning", "handStrength",
                   "holeCards", "communityCards"} : pokerState[1][f] # <<>>

\* C37: the entries of the transcript list have pairwise distinct ids
C37_TranscriptIdsDistinct ==
    \A i, j \in 1..Len(transcripts) :
        i # j => transcripts[i].id # transcripts[j].id

\* C40: a fragment merged into the last entry leaves the entry's id and
\* timestamp as they were, a new entry gets the time of its first fragment as
\* both, and a fragment that arrives TRANSCRIPT_MERGE_WINDOW_MS or more after
\* the last entry's timestamp starts a new entry, however recent the
\* fragment merged before it
C40_MergeKeepsWindowStart ==
    [][ (steps' = steps + 1 /\ alast' \in {"fragAi", "fragUser"}) =>
          LET n == Len(transcripts)
              m == Len(transcripts')
          IN  /\ (n > 0 /\ m = n) =>
                    /\ transcripts'[n].id = transcripts[n].id
                    /\ transcripts'[n].timestamp = transcripts[n].timestamp
              /\ m = n + 1 =>
                    /\ transcripts'[m].id = clockMs'
                    /\ transcripts'[m].timestamp = clockMs'
              /\ (n > 0 /\ clockMs' - transcripts[n].timestamp
                              >= TRANSCRIPT_MERGE_WINDOW_MS) => m = n + 1 ]_vars

\* three fragments of one source, each less than the window after the one
\* before: the second was merged into the entry of the first, the third,
\* more than the window after that entry was created, made a new entry
C40_Witness ==
    /\ alast \in {"fragAi", "fragUser"}
    /\ Len(transcripts) = 2
    /\ transcripts[1].source = transcripts[2].source
    /\ Len(transcripts[1].text) = 2 /\ Len(transcripts[2].text) = 1
    /\ transcripts[1].timestamp = transcripts[1].id
    /\ transcripts[2].timestamp - transcripts[1].timestamp
          = 2 * (TRANSCRIPT_MERGE_WINDOW_MS - 1)

\* C39: after every step isPermissionError is true only if an error message
\* is set; a step that raises the flag sets a message, a step that clears
\* the message clears the flag, and disconnect() changes neither
C39_FlagOnlyWithMessage ==
    [][/\ isPermissionError' => error' # NullError
       /\ (isPermissionError' /\ ~isPermissionError) =>
            (error' # NullError /\ HasMarker(error'.message))
       /\ error' = NullError => ~isPermissionError'
       /\ (last' \in {"disconnect", "again"} /\ last' # last) =>
            UNCHANGED <<error, isPermissionError>>]_vars

\* a disconnect() has just left the message and the flag of a denied
\* microphone as they were
C39_Witness ==
    /\ last = "disconnect"
    /\ isPermissionError
    /\ error # NullError
    /\ HasMarker(error.message)

\* C38: the retry count changes in two kinds of step only: the catch block of
\* a connect() call that failed with budget left adds one (and schedules one
\* retry timeout), and onopen stores 0.  Every other step, disconnect() and
\* the entry of a connect() call included, leaves it alone; and a connect()
\* call that fails when the count is MAX_RETRIES schedules no retry timeout
\* and leaves the count at MAX_RETRIES.
C38_RetryCountFrame ==
    [][/\ retryCountRef' # retryCountRef =>
            \/ /\ retryCountRef' = retryCountRef + 1
               /\ retryCountRef < MAX_RETRIES
               /\ last' \in {"micDenied", "noKey"}
               /\ timersSinceOpen' = timersSinceOpen + 1
            \/ /\ retryCountRef' = 0
               /\ sess'.open = sess.open + 1
               /\ isActive'
       /\ (last' \in {"disconnect", "again", "unmount"}) => retryCountRef' = retryCountRef
       /\ calls' = calls + 1 /\ last' = "step" => retryCountRef' = retryCountRef
       /\ ( /\ retryCountRef = MAX_RETRIES
            /\ last' \in {"micDenied", "noKey"}
            /\ (micWait' = micWait - 1 \/ calls' = calls + 1) ) =>
             /\ retryCountRef' = MAX_RETRIES
             /\ timersSinceOpen' = timersSinceOpen
             /\ liveRetryTimers' <= liveRetryTimers
             /\ retryTimeoutRef' \in {retryTimeoutRef, FIRED}]_vars

\* the user has called connect() once more than the budget, every call failed
\* and none was started by a retry timeout (all of them are still pending):
\* the last failure found the budget used up and scheduled nothing
C38_Witness ==
    /\ last = "micDenied"
    /\ calls = MAX_RETRIES + 1 /\ failsSinceOpen = MAX_RETRIES + 1
    /\ liveRetryTimers = MAX_RETRIES
    /\ retryCountRef = MAX_RETRIES /\ timersSinceOpen = MAX_RETRIES

\* C35: the step that follows a disconnect(), unless it is a new connect()
\* call, leaves the hook disconnected: isActive stays false, no session handle
\* is stored, no session starts connecting or becomes open, no microphone
\* stream is acquired and no audio context is opened.  (The pending steps of
\* a connect() call that was in flight when disconnect() ran are such steps.)
C35_StaysDisconnected ==
    [][(last \in {"disconnect", "again"} /\ calls' = calls) =>
          /\ ~isActive'
          /\ sessionRef' = NULL
          /\ audioStreamRef' = NULL
          /\ liveMic' <= liveMic
          /\ openContexts' <= openContexts
          /\ sess'.connecting <= sess.connecting
          /\ sess'.open <= sess.open]_vars

\* C33: the retry timeouts scheduled since the last open were scheduled with
\* getBackoffDelay(1), getBackoffDelay(2), ... (the count already
\* incremented); each delay is min(BASE_DELAY_MS * 2^count, MAX_DELAY_MS) plus
\* the jitter, and whatever the jitters, a delay is never smaller than the one
\* scheduled before it.
C33_DelaysNonDecreasing ==
    /\ Len(backoffCounts) = timersSinceOpen
    /\ \A k \in 1..Len(backoffCounts) :
          /\ backoffCounts[k] = k
          /\ \A j \in Jitters :
                /\ getBackoffDelay(backoffCounts[k], j) - j <= MAX_DELAY_MS
                /\ getBackoffDelay(backoffCounts[k], j) - j \in
                      {BASE_DELAY_MS * 2 ^ k, MAX_DELAY_MS}
                /\ getBackoffDelay(backoffCounts[k], j) - j = MAX_DELAY_MS
                      => BASE_DELAY_MS * 2 ^ k >= MAX_DELAY_MS
    /\ \A k \in 1..(Len(backoffCounts) - 1) : \A j1, j2 \in Jitters :
          getBackoffDelay(backoffCounts[k], j1) <= getBackoffDelay(backoffCounts[k + 1], j2)

\* three attempts in a row have failed and three timeouts were scheduled
C33_Witness ==
    /\ last = "micDenied" /\ failsSinceOpen = MAX_RETRIES
    /\ backoffCounts = <<1, 2, 3>>
    /\ getBackoffDelay(backoffCounts[1], JITTER_MS - 1) = 2999
    /\ getBackoffDelay(backoffCounts[3], 0) = 8000

\* C32: every instruction analyzeRegion hands to sendSafeInput is the one of
\* the band of its y: FOCUS_HERO above 0.65, FOCUS_BOARD above 0.25 up to 0.65
\* included, FOCUS_GENERAL otherwise (0.25 included); one instruction per call
\* that passed the throttle and the guard (sendSafeInput passes it on when the
\* session handle is still set); and the label VideoPreview shows for a click
\* names the band of the instruction chosen for the same y.
C32_OneBandPerClick ==
    /\ \A k \in 1..Len(prompts) :
          LET y == prompts[k][1]  text == prompts[k][2]
          IN  /\ text = "FOCUS_HERO" <=> y > 65
              /\ text = "FOCUS_BOARD" <=> (25 < y /\ y <= 65)
              /\ text = "FOCUS_GENERAL" <=> y <= 25
              /\ text \in {"FOCUS_HERO", "FOCUS_BOARD", "FOCUS_GENERAL"}
    /\ Len(prompts) + regionCaptures <= accepted
    /\ Len(pendingY) = regionCaptures
    /\ Len(SelectSeq(sent, LAMBDA x : x = "prompt")) <= Len(prompts)
    /\ sessionRef # NULL => Len(SelectSeq(sent, LAMBDA x : x = "prompt")) = Len(prompts)
    /\ \A y \in ClickYs :
          Cardinality({b \in {"FOCUS_HERO", "FOCUS_BOARD", "FOCUS_GENERAL"} :
                          RegionPrompt(y) = b}) = 1
    /\ clickEffect # <<>> =>
          LET y == clickEffect[1].y  type == clickEffect[1].type
          IN  /\ type = "HERO" <=> RegionPrompt(y) = "FOCUS_HERO"
              /\ type = "BOARD" <=> RegionPrompt(y) = "FOCUS_BOARD"
              /\ type = "SCAN" <=> RegionPrompt(y) = "FOCUS_GENERAL"

\* clicks on both thresholds were analysed: 0.65 as the board, 0.25 as general
C32_Witness ==
    /\ alast = "regionSent"
    /\ prompts = << <<65, "FOCUS_BOARD">>, <<25, "FOCUS_GENERAL">> >>
    /\ sent = <<"frame", "prompt", "frame", "prompt">>
    /\ clickEffect # <<>> /\ clickEffect[1] = [y |-> 25, type |-> "SCAN"]

\* C36: the first chunk enqueued on an output context starts at the reading
\* of that context's clock: the start time left by the chunks of the context
\* of an earlier connect() call never delays it.
C36_FirstChunkAtNewClock ==
    [][(steps' = steps + 1 /\ alast' = "chunk" /\ Len(scheduled') = Len(scheduled) + 1
          /\ \A i \in 1..Len(scheduled) : scheduled[i][3] # calls) =>
          scheduled'[Len(scheduled')][1] = playClock']_vars

\* C31: a call that throws into a logging catch block stops nothing after it
\* and never touches the error state.  A message of function calls is merged
\* whole, and each updatePokerState call whose response did not throw is
\* acknowledged; after a capture every realtime input is passed on or throws,
\* the instruction included when the frame before it threw; disconnect() with
\* a throwing close() leaves every handle null and releases what they held.
C31_CaughtFailuresDoNotBlock ==
    [][LET caught == {threw'[k].at : k \in (Len(threw) + 1)..Len(threw')}
           new    == SubSeq(received', Len(received) + 1, Len(received'))
           due    == SelectSeq(new, LAMBDA v : /\ v.name = "updatePokerState"
                                               /\ sessionRef # NULL
                                               /\ v.id \notin caught)
           tried  == (Len(sent') - Len(sent)) + (Len(threw') - Len(threw))
       IN  /\ Len(threw') > Len(threw) => UNCHANGED <<error, isPermissionError>>
           /\ (steps' = steps + 1 /\ alast' = "tool") =>
                 /\ toolResponses' = toolResponses \o
                       [k \in 1..Len(due) |->
                           [id |-> due[k].id, name |-> due[k].name, success |-> TRUE]]
                 /\ \E fcs \in ToolMessages :
                       /\ Invocations(fcs, Len(received)) = new
                       /\ pokerState' = ToolMerge(pokerState, fcs)
           /\ (scanCaptures' = scanCaptures - 1 /\ sessionRef # NULL) =>
                 /\ tried \in {1, 2}
                 /\ tried \notin caught =>
                       (Len(sent') > Len(sent) /\ sent'[Len(sent')] = "scan")
           /\ (regionCaptures' = regionCaptures - 1 /\ sessionRef # NULL) =>
                 /\ tried \in {1, 2}
                 /\ Len(prompts') = Len(prompts) + 1
                 /\ tried \notin caught =>
                       (Len(sent') > Len(sent) /\ sent'[Len(sent')] = "prompt")
           /\ last' = "closeThrew" /\ last # "closeThrew" =>
                 /\ sessionRef' = NULL /\ audioStreamRef' = NULL
                 /\ mediaStreamRef' = NULL /\ workletNodeRef' = NULL
                 /\ inputAudioContextRef' = NULL /\ outputAudioContextRef' = NULL
                 /\ gainNodeRef' = NULL /\ videoIntervalRef' = NULL
                 /\ retryTimeoutRef' = NULL /\ autoAnalysisIntervalRef' = NULL
                 /\ liveMic' = liveMic - Held(audioStreamRef)
                 /\ liveScreen' = liveScreen - Held(mediaStreamRef)
                 /\ openContexts' = openContexts - Held(inputAudioContextRef)
                                                 - Held(outputAudioContextRef)
                 /\ liveIntervals' = liveIntervals - Held(videoIntervalRef)
                 /\ ~isActive' /\ ~isStreamingScreen'
                 /\ transcripts' = <<>> /\ audioSourcesRef' = {}
                 /\ nextStartTimeRef' = 0]_vars

\* the frame of a scan threw and the instruction went out; the response to
\* the first of two function calls threw, both were merged and the second
\* was acknowledged; then close() threw in disconnect() and the teardown ran
\* to its end; no error was ever set
C31_Witness ==
    /\ last = "closeThrew"
    /\ threw = <<[op |-> "sendRealtimeInput", at |-> 1],
                 [op |-> "sendToolResponse", at |-> 1],
                 [op |-> "close", at |-> 0]>>
    /\ sent = <<"scan">>
    /\ toolResponses = <<[id |-> 2, name |-> "updatePokerState", success |-> TRUE]>>
    /\ PrevField(pokerState, "winProbability") = <<75>>
    /\ PrevField(pokerState, "suggestedAction") = <<"RAISE">>
    /\ sessionRef = NULL /\ openContexts = 0 /\ liveMic = 0 /\ ~isActive
    /\ error = NullError

====
